---- MODULE Spec2Model ----
(***************************************************************************)
(* A model of the plane-sweep partitioner of pathfinder                    *)
(* (partitioner/src/partitioner.rs).  A Partitioner turns closed subpaths  *)
(* of line segments and quadratic Beziers into B-quads, appended to a      *)
(* mesh library.                                                           *)
(*                                                                         *)
(* f32 coordinates are modelled as exact rationals (records num/den in     *)
(* lowest terms, den > 0); indices are 0-based as in the source, and a     *)
(* Rust Vec is a sequence read with At(v, i) = v[i + 1].                   *)
(***************************************************************************)
EXTENDS Integers, Sequences, FiniteSets, Bags, TLC

\* ------------------------------------------------------------------------
\* Bounds of the model.
\* ------------------------------------------------------------------------
\* x coordinates of endpoints are drawn from 0..MaxX, y from 0..MaxY.
MaxX == 2
MaxY == 2
\* number of partition calls made on one partitioner
MaxCalls == 2

\* ------------------------------------------------------------------------
\* Program constants.
\* ------------------------------------------------------------------------
\* a limit of one subdivision more
NINE_B_QUAD_SUBDIVISIONS == 8 + 1
\* const MAX_B_QUAD_SUBDIVISIONS: u8 = 8;
MAX_B_QUAD_SUBDIVISIONS == 8
\* u32::MAX, the "no control point" sentinel.  TLC's integers are 32-bit
\* signed, so the sentinel is the largest value TLC can hold; no arithmetic
\* is ever done on it.
U32_MAX == 2147483647
\* f32::approx_epsilon() is 1 / ApproxEpsilonDen.
ApproxEpsilonDen == 1000000

\* ------------------------------------------------------------------------
\* Exact rational arithmetic, standing for f32 arithmetic.
\* ------------------------------------------------------------------------
Abs(a) == IF a < 0 THEN -a ELSE a

RECURSIVE Gcd(_, _)
Gcd(a, b) == IF b = 0 THEN a ELSE Gcd(b, a % b)

\* n / d in lowest terms, with a positive denominator
Rat(n, d) ==
  [num |-> (IF d < 0 THEN -n ELSE n) \div Gcd(Abs(n), Abs(d)),
   den |-> Abs(d) \div Gcd(Abs(n), Abs(d))]

RInt(k) == [num |-> k, den |-> 1]
RZero == RInt(0)
ROne == RInt(1)
RHalf == [num |-> 1, den |-> 2]

\* The operations keep their intermediate values small (TLC's integers are
\* 32 bits wide): sums go through the least common denominator, products
\* cancel crosswise first.
Lcm(a, b) == (a \div Gcd(a, b)) * b

RNeg(a) == [num |-> -a.num, den |-> a.den]
RAdd(a, b) ==
  IF a.den = b.den
  THEN Rat(a.num + b.num, a.den)
  ELSE Rat(a.num * (Lcm(a.den, b.den) \div a.den)
             + b.num * (Lcm(a.den, b.den) \div b.den),
           Lcm(a.den, b.den))
RSub(a, b) == RAdd(a, RNeg(b))
RMul(a, b) ==
  IF a.num = 0 \/ b.num = 0
  THEN [num |-> 0, den |-> 1]
  ELSE [num |-> (a.num \div Gcd(Abs(a.num), b.den))
                  * (b.num \div Gcd(Abs(b.num), a.den)),
        den |-> (a.den \div Gcd(Abs(b.num), a.den))
                  * (b.den \div Gcd(Abs(a.num), b.den))]
RInv(a) == IF a.num < 0 THEN [num |-> -a.den, den |-> -a.num]
           ELSE [num |-> a.den, den |-> a.num]
RDiv(a, b) == RMul(a, RInv(b))
RLt(a, b) ==
  IF a.den = b.den
  THEN a.num < b.num
  ELSE a.num * (Lcm(a.den, b.den) \div a.den)
         < b.num * (Lcm(a.den, b.den) \div b.den)
RLe(a, b) == ~RLt(b, a)
REq(a, b) == a = b

\* a >= f32::approx_epsilon(), for a in lowest terms (no overflow)
RGeEps(a) == a.num > 0 /\ (a.den + a.num - 1) \div a.num <= ApproxEpsilonDen
\* a > f32::approx_epsilon()
RGtEps(a) == a.num > 0 /\ a.den \div a.num < ApproxEpsilonDen
\* a < -f32::approx_epsilon()
RLtNegEps(a) == RGtEps(RNeg(a))

\* ------------------------------------------------------------------------
\* euclid::Point2D<f32> / Vector2D<f32>
\* ------------------------------------------------------------------------
Pt(x, y) == [x |-> x, y |-> y]
PSub(a, b) == [x |-> RSub(a.x, b.x), y |-> RSub(a.y, b.y)]
PCross(a, b) == RSub(RMul(a.x, b.y), RMul(a.y, b.x))
PSquareLength(a) == RAdd(RMul(a.x, a.x), RMul(a.y, a.y))
\* p/q > r/s for naturals p, r and positive q, s, by the continued-fraction
\* expansion of the two sides: no product is formed
RECURSIVE FracGt(_, _, _, _)
FracGt(p, q, r, s) ==
  IF p \div q /= r \div s THEN p \div q > r \div s
  ELSE IF p % q = 0 THEN FALSE
  ELSE IF r % s = 0 THEN TRUE
  ELSE FracGt(s, r % s, q, p % q)

\* an integer vector along v, with the factor it was scaled by
ScaledBy(v, l) ==
  [x |-> v.x.num * (l \div v.x.den), y |-> v.y.num * (l \div v.y.den),
   scale |-> l]
Scaled(v) == ScaledBy(v, Lcm(v.x.den, v.y.den))
\* the cross product of two integer vectors
ScaledCross(sa, sb) == sa.x * sb.y - sa.y * sb.x
\* the numerator of a x b over the denominator Scaled(a).scale * Scaled(b).scale
CrossNum(a, b) == ScaledCross(Scaled(a), Scaled(b))
\* sa x sb > f32::approx_epsilon(), for the integer vectors sa and sb
ScaledCrossGtEps(sa, sb) ==
  /\ ScaledCross(sa, sb) > 0
  /\ FracGt(ScaledCross(sa, sb), sa.scale, sb.scale, ApproxEpsilonDen)
\* a x b > f32::approx_epsilon()
CrossGtEps(a, b) == ScaledCrossGtEps(Scaled(a), Scaled(b))
\* a x b < -f32::approx_epsilon()
CrossLtNegEps(a, b) == CrossGtEps(b, a)

\* Vector2D::lerp: self * (1 - t) + other * t
\* a * one_t + b * t
PMix(a, b, one_t, t) ==
  [x |-> RAdd(RMul(a.x, one_t), RMul(b.x, t)),
   y |-> RAdd(RMul(a.y, one_t), RMul(b.y, t))]
PLerp(a, b, t) ==
  CHOOSE p \in {PMix(a, b, one_t, t) : one_t \in {RSub(ROne, t)}} : TRUE

\* a Rust Vec, 0-based
At(v, i) == v[i + 1]
SetAt(v, i, e) == [v EXCEPT ![i + 1] = e]
\* Vec::insert(i, e)
VecInsert(v, i, e) == SubSeq(v, 1, i) \o <<e>> \o SubSeq(v, i + 1, Len(v))
\* Vec::remove(i)
VecRemove(v, i) == SubSeq(v, 1, i) \o SubSeq(v, i + 2, Len(v))
\* slice::swap(i, j)
VecSwap(v, i, j) == [v EXCEPT ![i + 1] = v[j + 1], ![j + 1] = v[i + 1]]

\* Option<T>
None == [some |-> FALSE]
Some(v) == [some |-> TRUE, value |-> v]

\* ------------------------------------------------------------------------
\* pathfinder_path_utils::line::Line (endpoints a, b)
\* ------------------------------------------------------------------------
Line(a, b) == [a |-> a, b |-> b]

\* (x - a.x) / (b.x - a.x); the vertical line gives 0
LineSolveTForX(l, x) ==
  IF l.b.x /= l.a.x THEN RDiv(RSub(x, l.a.x), RSub(l.b.x, l.a.x)) ELSE RZero

LineSample(l, t) == PLerp(l.a, l.b, t)

\* the left part of subdivide_at_x(x)
LineSubdivideAtX(l, x) == Line(l.a, LineSample(l, LineSolveTForX(l, x)))

\* standard two-segment intersection: None when the segments are parallel
\* or the lines meet outside one of them
\* the point of l at t, when t and u both lie in [0, 1]
LineMeetingAt(l, t, u) ==
  IF RLt(t, RZero) \/ RLt(ROne, t) \/ RLt(u, RZero) \/ RLt(ROne, u)
  THEN None
  ELSE Some(PLerp(l.a, l.b, t))
\* r and s are the directions of the two lines, qp leads from one origin to
\* the other, rs is r x s
LineMeeting(l, r, s, qp, rs) ==
  IF rs.num = 0 THEN None
  ELSE LineMeetingAt(l, RDiv(PCross(qp, s), rs), RDiv(PCross(qp, r), rs))
LineDirections(l, r, s, qp) == LineMeeting(l, r, s, qp, PCross(r, s))
LineIntersectWithLine(l, other) ==
  LineDirections(l, PSub(l.b, l.a), PSub(other.b, other.a), PSub(other.a, l.a))

\* baseline().side(p): the side of the chord a-b on which p lies, as the
\* cross product (b - a) x (p - a), compared with +-epsilon.
LineSideGtEps(l, p) == CrossGtEps(PSub(l.b, l.a), PSub(p, l.a))
LineSideLtNegEps(l, p) == CrossLtNegEps(PSub(l.b, l.a), PSub(p, l.a))

\* ------------------------------------------------------------------------
\* pathfinder_path_utils::curve::Curve (endpoints a, b; control point c)
\* ------------------------------------------------------------------------
Curve(a, c, b) == [a |-> a, c |-> c, b |-> b]

\* (1-t)^2 a + 2(1-t)t c + t^2 b, by de Casteljau
CurveSample(cv, t) == PLerp(PLerp(cv.a, cv.c, t), PLerp(cv.c, cv.b, t), t)

\* subdivide(t) -> (left_curve, right_curve)
CurveHalvesAround(cv, ac, cb, mid) == <<Curve(cv.a, ac, mid), Curve(mid, cb, cv.b)>>
CurveHalves(cv, ac, cb, t) == CurveHalvesAround(cv, ac, cb, PLerp(ac, cb, t))
CurveSubdivide(cv, t) ==
  CHOOSE halves \in
    {CurveHalves(cv, ac, cb, t) :
       ac \in {PLerp(cv.a, cv.c, t)}, cb \in {PLerp(cv.c, cv.b, t)}} : TRUE

\* a perfect square root among the naturals
ISqrt(n) == CHOOSE s \in 0..n : s * s = n

\* Solve (1-t)^2 a.x + 2(1-t)t c.x + t^2 b.x = x for t in [0, 1].  With
\* qa = a.x - 2 c.x + b.x = 0 the quadratic is degenerate and the linear
\* solution is taken.  The other branch is exact only when the root is
\* rational.
\* the root within [0, 1] of the two
QuadraticPick(t1, t2) == IF RLe(RZero, t1) /\ RLe(t1, ROne) THEN t1 ELSE t2
\* (-qb +- root) / two_qa
QuadraticRoots(root, qb, two_qa) ==
  QuadraticPick(RDiv(RSub(root, qb), two_qa),
                RDiv(RSub(RNeg(root), qb), two_qa))
\* the solution of qa t^2 + qb t + qc = 0 in [0, 1]
QuadraticSolve(qa, qb, qc, disc) ==
  IF qa.num = 0
  THEN IF qb.num /= 0 THEN RDiv(RNeg(qc), qb) ELSE RZero
  ELSE QuadraticRoots(Rat(ISqrt(disc.num), ISqrt(disc.den)), qb,
                      RMul(RInt(2), qa))
QuadraticDiscriminant(qa, qb, qc) ==
  QuadraticSolve(qa, qb, qc, RSub(RMul(qb, qb), RMul(RInt(4), RMul(qa, qc))))
CurveSolveTForX(cv, x) ==
  CHOOSE t \in
    {QuadraticDiscriminant(qa, qb, qc) :
       qa \in {RAdd(RSub(cv.a.x, RMul(RInt(2), cv.c.x)), cv.b.x)},
       qb \in {RMul(RInt(2), RSub(cv.c.x, cv.a.x))},
       qc \in {RSub(cv.a.x, x)}} : TRUE

\* the left part of subdivide_at_x(x)
CurveSubdivideAtX(cv, x) == CurveSubdivide(cv, CurveSolveTForX(cv, x))[1]

CurveBaseline(cv) == Line(cv.a, cv.b)

\* ------------------------------------------------------------------------
\* BVertexLoopBlinnData { uv, sign, kind }; uv in units of 1/2
\* ------------------------------------------------------------------------
\* BVertexLoopBlinnData::new(kind) for an endpoint kind
LoopBlinnNew(kind) ==
  [uv |-> IF kind = "Endpoint0" THEN <<0, 0>> ELSE <<2, 2>>,
   sign |-> 0, kind |-> kind]

\* BVertexLoopBlinnData::control_point(left, control, right, bottom): the
\* sign of (control - left) x (right - left), combined with bottom
LoopBlinnControlPointData(positive) ==
  [uv |-> <<1, 0>>,
   sign |-> IF positive THEN 1 ELSE -1,
   kind |-> IF positive THEN "ConcaveControlPoint" ELSE "ConvexControlPoint"]
LoopBlinnControlPoint(left, control, right, bottom) ==
  LoopBlinnControlPointData(
    (CrossNum(PSub(control, left), PSub(right, left)) < 0) /= bottom)

\* ------------------------------------------------------------------------
\* The state of one Partitioner and of its caller.
\* ------------------------------------------------------------------------
VARIABLES
  endpoints,        \* &[Endpoint]: position, control_point_index, subpath_index
  control_points,   \* &[Point2D<f32>]
  subpaths,         \* &[Subpath]: first_endpoint_index, last_endpoint_index
  library,          \* MeshLibrary
  fill_rule,        \* "EvenOdd" or "Winding"
  heap,             \* BinaryHeap<Point>, as the bag of its elements
  visited_points,   \* BitVec
  active_edges,     \* Vec<ActiveEdge>
  path_id,          \* u16
  pc,               \* "idle": no call in progress; "partition": inside the
                    \* loop of partition(), between two process_next_point
  call,             \* the arguments of the current call, with the
                    \* start_lengths and the visited bits at its entry
  ranges,           \* the MeshLibraryIndexRanges returned by the calls so far
  calls,            \* number of partition calls started
  iterations,       \* number of times process_next_point has returned true
                    \* in the current call
  last              \* what the last step did (for stating the claims)

vars == <<endpoints, control_points, subpaths, library, fill_rule, heap,
          visited_points, active_edges, path_id, pc, call, ranges, calls,
          iterations, last>>

\* MeshLibrary::new()
EmptyLibrary ==
  [b_vertex_positions |-> <<>>,
   b_vertex_path_ids |-> <<>>,
   b_vertex_loop_blinn_data |-> <<>>,
   cover_indices |-> [interior_indices |-> <<>>, curve_indices |-> <<>>],
   b_quads |-> <<>>]

\* MeshLibrary::snapshot_lengths()
snapshot_lengths(lib) ==
  [b_quads |-> Len(lib.b_quads),
   b_vertices |-> Len(lib.b_vertex_positions),
   cover_interior_indices |-> Len(lib.cover_indices.interior_indices),
   cover_curve_indices |-> Len(lib.cover_indices.curve_indices)]

\* MeshLibraryIndexRanges::new(&start, &end): each range is start..end
MeshLibraryIndexRangesNew(start, end) ==
  [b_quads |-> <<start.b_quads, end.b_quads>>,
   b_vertex_positions |-> <<start.b_vertices, end.b_vertices>>,
   cover_interior_indices |->
     <<start.cover_interior_indices, end.cover_interior_indices>>,
   cover_curve_indices |-> <<start.cover_curve_indices, end.cover_curve_indices>>]

\* a library that drops the B-quad
drop_b_quad(lib, b_quad) == lib

\* MeshLibrary::add_b_quad: records the B-quad
add_b_quad(lib, b_quad) == [lib EXCEPT !.b_quads = Append(@, b_quad)]

\* BQuad::new
BQuadNew(ul, uc, ur, ll, lc, lr) ==
  [upper_left_vertex_index |-> ul,
   upper_control_point_vertex_index |-> uc,
   upper_right_vertex_index |-> ur,
   lower_left_vertex_index |-> ll,
   lower_control_point_vertex_index |-> lc,
   lower_right_vertex_index |-> lr]

\* one B-vertex appended with its path id forgotten
PushBVertexWithoutPathId(lib, position, id, loop_blinn_data) ==
  [lib EXCEPT !.b_vertex_positions = Append(@, position),
              !.b_vertex_loop_blinn_data = Append(@, loop_blinn_data)]

\* the three pushes that append one B-vertex
PushBVertex(lib, position, id, loop_blinn_data) ==
  [lib EXCEPT !.b_vertex_positions = Append(@, position),
              !.b_vertex_path_ids = Append(@, id),
              !.b_vertex_loop_blinn_data = Append(@, loop_blinn_data)]

\* the three extends that append three B-vertices of one path id
ExtendBVertices(lib, positions, id, loop_blinn_data) ==
  [lib EXCEPT !.b_vertex_positions = @ \o positions,
              !.b_vertex_path_ids = @ \o <<id, id, id>>,
              !.b_vertex_loop_blinn_data = @ \o loop_blinn_data]

\* ------------------------------------------------------------------------
\* ActiveEdge
\* ------------------------------------------------------------------------
ActiveEdgeDefault ==
  [left_vertex_index |-> 0,
   control_point_vertex_index |-> U32_MAX,
   right_endpoint_index |-> 0,
   left_to_right |-> FALSE,
   parity |-> FALSE]

\* an edge that keeps its parity
keep_parity(e) == e

toggle_parity(e) == [e EXCEPT !.parity = ~@]

endpoint_kind(e) == IF ~e.parity THEN "Endpoint0" ELSE "Endpoint1"

winding_number(e) == IF e.left_to_right THEN 1 ELSE -1

\* ------------------------------------------------------------------------
\* Point and its ordering (reversed, because BinaryHeap is a max-heap)
\* ------------------------------------------------------------------------
Reverse(o) == CASE o = "Less" -> "Greater"
                [] o = "Greater" -> "Less"
                [] OTHER -> "Equal"

\* f32::partial_cmp / u32::partial_cmp of a with b
RCmp(a, b) == IF RLt(a, b) THEN "Less" ELSE IF RLt(b, a) THEN "Greater" ELSE "Equal"
ICmp(a, b) == IF a < b THEN "Less" ELSE IF b < a THEN "Greater" ELSE "Equal"

\* match ordering { Equal => rest, ordering => return ordering }
UnlessEqual(ordering, rest) == IF ordering /= "Equal" THEN ordering ELSE rest

\* a comparison that forgets the y coordinate
PointCmpWithoutY(self, other) ==
  UnlessEqual(RCmp(other.position.x, self.position.x),
              ICmp(other.endpoint_index, self.endpoint_index))

\* impl PartialOrd / Ord for Point: self.cmp(other)
PointCmp(self, other) ==
  UnlessEqual(RCmp(other.position.x, self.position.x),
              UnlessEqual(RCmp(other.position.y, self.position.y),
                          ICmp(other.endpoint_index, self.endpoint_index)))

\* BinaryHeap::peek: the greatest element
HeapPeek(h) ==
  CHOOSE pt \in BagToSet(h) : \A q \in BagToSet(h) : PointCmp(pt, q) /= "Less"

\* a push that is lost
HeapPushNothing(h, pt) == h
\* BinaryHeap::push
HeapPush(h, pt) == h (+) SetToBag({pt})
\* BinaryHeap::pop
HeapPop(h) == h (-) SetToBag({HeapPeek(h)})
\* *heap.peek_mut().unwrap() = pt
HeapReplaceTop(h, pt) == HeapPush(HeapPop(h), pt)

\* the next index, without the wrap to the first endpoint of the subpath
next_index_of(endpoint_index) == endpoint_index + 1

\* ------------------------------------------------------------------------
\* Endpoints and subpaths
\* ------------------------------------------------------------------------
prev_endpoint_of(endpoint_index) ==
  LET endpoint == At(endpoints, endpoint_index)
      subpath == At(subpaths, endpoint.subpath_index)
  IN  IF endpoint_index > subpath.first_endpoint_index
      THEN endpoint_index - 1
      ELSE subpath.last_endpoint_index - 1

next_endpoint_of(endpoint_index) ==
  LET endpoint == At(endpoints, endpoint_index)
      subpath == At(subpaths, endpoint.subpath_index)
  IN  IF endpoint_index + 1 < subpath.last_endpoint_index
      THEN endpoint_index + 1
      ELSE subpath.first_endpoint_index

create_point_from_endpoint(endpoint_index) ==
  [position |-> At(endpoints, endpoint_index).position,
   endpoint_index |-> endpoint_index]

control_point_index_before_endpoint(endpoint_index) ==
  At(endpoints, endpoint_index).control_point_index

control_point_index_after_endpoint(endpoint_index) ==
  control_point_index_before_endpoint(next_endpoint_of(endpoint_index))

\* a match that takes one earlier neighbour for two
EndpointClassOfEither(prev_ordering, next_ordering) ==
  IF prev_ordering = "Less" \/ next_ordering = "Less" THEN "Max" ELSE "Min"

\* the match of classify_endpoint on the two reversed comparisons
EndpointClass(prev_ordering, next_ordering) ==
  IF prev_ordering = "Less" /\ next_ordering = "Less" THEN "Max"
  ELSE IF prev_ordering = "Less" \/ next_ordering = "Less" THEN "Regular"
  ELSE "Min"

classify_points(point, prev_point, next_point) ==
  EndpointClass(Reverse(PointCmp(prev_point, point)),
                Reverse(PointCmp(next_point, point)))

classify_endpoint(endpoint_index) ==
  classify_points(create_point_from_endpoint(endpoint_index),
                  create_point_from_endpoint(prev_endpoint_of(endpoint_index)),
                  create_point_from_endpoint(next_endpoint_of(endpoint_index)))

already_visited_point(visited, point) == At(visited, point.endpoint_index)

\* a dispatch that leaves the bit as it was
leave_point_unvisited(visited, point) == visited

mark_point_as_visited(visited, point) == SetAt(visited, point.endpoint_index, TRUE)

\* ------------------------------------------------------------------------
\* Geometry of active edges.  In the operators below, self is the record
\* [library, active_edges, heap, visited_points] of the partitioner's
\* mutable fields; an operator that changes them returns the new record.
\* ------------------------------------------------------------------------
\* every x answered with the right end of the edge
solve_active_edge_t_at_right_end(self, x, active_edge) == ROne

solve_active_edge_t_for_x(self, x, active_edge) ==
  LET left_vertex_position ==
        At(self.library.b_vertex_positions, active_edge.left_vertex_index)
      right_endpoint_position ==
        At(endpoints, active_edge.right_endpoint_index).position
  IN  IF active_edge.control_point_vertex_index = U32_MAX
      THEN LineSolveTForX(Line(left_vertex_position, right_endpoint_position), x)
      ELSE CurveSolveTForX(
             Curve(left_vertex_position,
                   At(self.library.b_vertex_positions,
                      active_edge.control_point_vertex_index),
                   right_endpoint_position), x)

sample_active_edge(self, t, active_edge) ==
  LET left_vertex_position ==
        At(self.library.b_vertex_positions, active_edge.left_vertex_index)
      right_endpoint_position ==
        At(endpoints, active_edge.right_endpoint_index).position
  IN  IF active_edge.control_point_vertex_index = U32_MAX
      THEN PLerp(left_vertex_position, right_endpoint_position, t)
      ELSE CurveSample(
             Curve(left_vertex_position,
                   At(self.library.b_vertex_positions,
                      active_edge.control_point_vertex_index),
                   right_endpoint_position), t)

solve_active_edge_y_for_x(self, x, active_edge) ==
  CHOOSE y \in
    {sample_active_edge(self, t, active_edge).y :
       t \in {solve_active_edge_t_for_x(self, x, active_edge)}} : TRUE

\* a comparison that finds every pair of edges in order
active_edges_always_ordered(self, prev_active_edge_index, next_active_edge_index, x) == TRUE

active_edges_are_ordered(self, prev_active_edge_index, next_active_edge_index, x) ==
  LET prev_active_edge == At(self.active_edges, prev_active_edge_index)
      next_active_edge == At(self.active_edges, next_active_edge_index)
      Ordered(y) == RLe(y[prev_active_edge], y[next_active_edge])
  IN  IF prev_active_edge.right_endpoint_index = next_active_edge.right_endpoint_index
      THEN TRUE
      ELSE Ordered([active_edge \in {prev_active_edge, next_active_edge} |->
                      solve_active_edge_y_for_x(self, x, active_edge)])

\* the first active edge below the endpoint, or the length of the list
find_point_between_active_edges(self, endpoint_index) ==
  LET endpoint == At(endpoints, endpoint_index)
      First(below) ==
        IF below /= {}
        THEN CHOOSE i \in below : \A j \in below : i <= j
        ELSE Len(self.active_edges)
  IN  First({i \in 0..(Len(self.active_edges) - 1) :
               RLt(endpoint.position.y,
                   solve_active_edge_y_for_x(self, endpoint.position.x,
                                             At(self.active_edges, i)))})

\* a scan that goes on after the second match and counts every edge that
\* ends at the endpoint
count_right_point_in_active_edge_list(self, endpoint_index) ==
  [indices |-> <<0, 0>>,
   count |-> Cardinality({i \in 0..(Len(self.active_edges) - 1) :
                            At(self.active_edges, i).right_endpoint_index
                              = endpoint_index})]

\* MatchingActiveEdges { indices, count }: the first two active edges that
\* end at the endpoint (the scan stops at the second)
find_right_point_in_active_edge_list(self, endpoint_index) ==
  LET matching == {i \in 0..(Len(self.active_edges) - 1) :
                     At(self.active_edges, i).right_endpoint_index = endpoint_index}
      first == CHOOSE i \in matching : \A j \in matching : i <= j
      rest == matching \ {first}
      second == CHOOSE i \in rest : \A j \in rest : i <= j
  IN  IF matching = {} THEN [indices |-> <<0, 0>>, count |-> 0]
      ELSE IF rest = {} THEN [indices |-> <<first, 0>>, count |-> 1]
      ELSE [indices |-> <<first, second>>, count |-> 2]

\* ------------------------------------------------------------------------
\* Fill rule
\* ------------------------------------------------------------------------
\* a pairing that puts the last edge of the list with the edge above it
bounding_active_edges_last_with_previous(self, active_edge_index) ==
  IF \/ active_edge_index % 2 = 1
     \/ active_edge_index + 1 = Len(self.active_edges)
  THEN <<active_edge_index - 1, active_edge_index>>
  ELSE <<active_edge_index, active_edge_index + 1>>

\* first loop of the Winding arm: over active_edges[0..active_edge_index]
RECURSIVE WindingScanAbove(_, _, _, _, _)
WindingScanAbove(edges, active_edge_index, j, winding, upper) ==
  IF j >= active_edge_index
  THEN <<winding, upper>>
  ELSE WindingScanAbove(edges, active_edge_index, j + 1,
                        winding + winding_number(At(edges, j)),
                        IF winding = 0 THEN j ELSE upper)

\* a scan below that stops at the edge it starts from
WindingScanBelowStopped(edges, j, winding, lower) == j

\* second loop of the Winding arm: from active_edge_index on, until the
\* winding number returns to zero
RECURSIVE WindingScanBelow(_, _, _, _)
WindingScanBelow(edges, j, winding, lower) ==
  IF j >= Len(edges)
  THEN lower
  ELSE LET w == winding + winding_number(At(edges, j))
       IN  IF w = 0 THEN j ELSE WindingScanBelow(edges, j + 1, w, lower)

bounding_active_edges_for_fill(self, active_edge_index) ==
  IF fill_rule = "EvenOdd"
  THEN IF active_edge_index % 2 = 1
       THEN <<active_edge_index - 1, active_edge_index>>
       ELSE IF active_edge_index + 1 = Len(self.active_edges)
       THEN <<active_edge_index, active_edge_index>>
       ELSE <<active_edge_index, active_edge_index + 1>>
  ELSE LET above == WindingScanAbove(self.active_edges, active_edge_index, 0, 0, 0)
           winding == above[1]
           upper == IF winding = 0 THEN active_edge_index ELSE above[2]
       IN  <<upper,
             WindingScanBelow(self.active_edges, active_edge_index, winding,
                              active_edge_index)>>

\* a result that never reports a B-quad
BQuadEmissionResultNone(active_edge_index, upper_active_edge_index, lower_active_edge_index) ==
  "NoBQuadEmitted"

\* BQuadEmissionResult::new
BQuadEmissionResultNew(active_edge_index, upper_active_edge_index, lower_active_edge_index) ==
  IF upper_active_edge_index = lower_active_edge_index THEN "NoBQuadEmitted"
  ELSE IF upper_active_edge_index = active_edge_index THEN "BQuadEmittedBelow"
  ELSE IF lower_active_edge_index = active_edge_index THEN "BQuadEmittedAbove"
  ELSE "BQuadEmittedAround"

\* ------------------------------------------------------------------------
\* Subdivision of active edges
\* ------------------------------------------------------------------------
\* a test that lets every edge be subdivided
should_subdivide_always(self, active_edge_index, x) == TRUE

should_subdivide_active_edge_at(self, active_edge_index, x) ==
  LET left_curve_left == At(self.active_edges, active_edge_index).left_vertex_index
      left_point_position == At(self.library.b_vertex_positions, left_curve_left)
  IN  RGeEps(RSub(x, left_point_position.x))

\* the arm of subdivide_active_edge_at for a line: one new vertex
subdivide_line(self, active_edge_index, active_edge, middle_point) ==
  [self |->
     [self EXCEPT
        !.library = PushBVertex(self.library, middle_point,
                                At(self.library.b_vertex_path_ids,
                                   active_edge.left_vertex_index),
                                LoopBlinnNew(endpoint_kind(active_edge))),
        !.active_edges =
          SetAt(self.active_edges, active_edge_index,
                [active_edge EXCEPT
                   !.left_vertex_index =
                      Len(self.library.b_vertex_loop_blinn_data)])],
   sub |-> [left_curve_left |-> active_edge.left_vertex_index,
            left_curve_control_point |-> U32_MAX,
            middle_point |-> Len(self.library.b_vertex_loop_blinn_data)]]

\* the arm for a curve: three new vertices
push_curve_halves(self, active_edge_index, active_edge, halves, control_point_data) ==
  [self |->
     [self EXCEPT
        !.library =
          ExtendBVertices(self.library,
            <<halves[1].c, halves[1].b, halves[2].c>>,
            path_id,
            <<control_point_data[1],
              LoopBlinnNew(endpoint_kind(active_edge)),
              control_point_data[2]>>),
        !.active_edges =
          SetAt(self.active_edges, active_edge_index,
                [active_edge EXCEPT
                   !.left_vertex_index =
                      Len(self.library.b_vertex_loop_blinn_data) + 1,
                   !.control_point_vertex_index =
                      Len(self.library.b_vertex_loop_blinn_data) + 2])],
   sub |-> [left_curve_left |-> active_edge.left_vertex_index,
            left_curve_control_point |->
              Len(self.library.b_vertex_loop_blinn_data),
            middle_point |-> Len(self.library.b_vertex_loop_blinn_data) + 1]]

\* the two BVertexLoopBlinnData::control_point of the halves of a curve
control_point_data_of(halves, bottom) ==
  [k \in 1..2 |->
     LoopBlinnControlPoint(halves[k].a, halves[k].c, halves[k].b, bottom)]

subdivide_curve(self, active_edge_index, active_edge, halves, bottom) ==
  push_curve_halves(self, active_edge_index, active_edge, halves,
                    control_point_data_of(halves, bottom))

subdivide_active_edge_at_t(self, active_edge_index, active_edge, bottom, t) ==
  IF active_edge.control_point_vertex_index = U32_MAX
  THEN subdivide_line(
         self, active_edge_index, active_edge,
         PLerp(At(self.library.b_vertex_positions, active_edge.left_vertex_index),
               At(endpoints, active_edge.right_endpoint_index).position, t))
  ELSE subdivide_curve(
         self, active_edge_index, active_edge,
         CurveSubdivide(
           Curve(At(self.library.b_vertex_positions,
                    active_edge.left_vertex_index),
                 At(self.library.b_vertex_positions,
                    active_edge.control_point_vertex_index),
                 At(endpoints, active_edge.right_endpoint_index).position), t),
         bottom)

\* Returns [self, sub]: the partitioner after the call and the
\* SubdividedActiveEdge { left_curve_left, left_curve_control_point,
\* middle_point }.  Does not toggle parity.
subdivide_active_edge_at(self, active_edge_index, x, subdivision_type) ==
  CHOOSE after \in
    {subdivide_active_edge_at_t(
       self, active_edge_index, At(self.active_edges, active_edge_index),
       subdivision_type = "Lower", t) :
       t \in {solve_active_edge_t_for_x(
                self, x, At(self.active_edges, active_edge_index))}} : TRUE

\* SubdividedActiveEdge::shape
shape(sub, b_vertex_loop_blinn_data) ==
  IF sub.left_curve_control_point = U32_MAX THEN "Flat"
  ELSE IF At(b_vertex_loop_blinn_data, sub.left_curve_control_point).sign < 0
  THEN "Convex"
  ELSE "Concave"

\* a conversion that makes a curve of a flat subdivision too, with the
\* middle of its chord for control point
to_curve_of_line(sub, b_vertex_positions) ==
  Some(Curve(At(b_vertex_positions, sub.left_curve_left),
             IF sub.left_curve_control_point = U32_MAX
             THEN PLerp(At(b_vertex_positions, sub.left_curve_left),
                        At(b_vertex_positions, sub.middle_point), RHalf)
             ELSE At(b_vertex_positions, sub.left_curve_control_point),
             At(b_vertex_positions, sub.middle_point)))

\* SubdividedActiveEdge::to_curve
to_curve(sub, b_vertex_positions) ==
  IF sub.left_curve_control_point = U32_MAX THEN None
  ELSE Some(Curve(At(b_vertex_positions, sub.left_curve_left),
                  At(b_vertex_positions, sub.left_curve_control_point),
                  At(b_vertex_positions, sub.middle_point)))

\* Returns [self, left, right]: the partitioner after the call and the two
\* sub-subdivisions.
push_subdivision_halves(self, subdivision, halves, control_point_data) ==
  [self |->
     [self EXCEPT !.library =
        ExtendBVertices(self.library,
          <<halves[1].c, halves[1].b, halves[2].c>>,
          path_id,
          <<control_point_data[1], LoopBlinnNew("Endpoint0"),
            control_point_data[2]>>)],
   left |-> [left_curve_left |-> subdivision.left_curve_left,
             left_curve_control_point |-> Len(self.library.b_vertex_positions),
             middle_point |-> Len(self.library.b_vertex_positions) + 1],
   right |-> [left_curve_left |-> Len(self.library.b_vertex_positions) + 1,
              left_curve_control_point |->
                Len(self.library.b_vertex_positions) + 2,
              middle_point |-> subdivision.middle_point]]

subdivide_again(self, subdivision, halves, bottom) ==
  push_subdivision_halves(self, subdivision, halves,
                          control_point_data_of(halves, bottom))

subdivide_active_edge_again_at_t(self, subdivision, t, bottom) ==
  CHOOSE after \in
    {subdivide_again(self, subdivision, halves, bottom) :
       halves \in {CurveSubdivide(
                     to_curve(subdivision,
                              self.library.b_vertex_positions).value,
                     t)}} : TRUE

subdivide_active_edge_again_at_x(self, subdivision, x, bottom) ==
  CHOOSE after \in
    {subdivide_active_edge_again_at_t(self, subdivision, t, bottom) :
       t \in {CurveSolveTForX(
                to_curve(subdivision, self.library.b_vertex_positions).value,
                x)}} : TRUE

\* ------------------------------------------------------------------------
\* B-quad emission
\* ------------------------------------------------------------------------
\* the indices appended to cover_indices.interior_indices by the match on
\* (upper_shape, lower_shape); u and l are the two subdivisions
\* the triangles of the (Concave, Flat) arm, whatever the shapes are
InteriorIndicesThroughControlPoint(upper_shape, lower_shape, u, l) ==
  <<u.left_curve_left, u.left_curve_control_point, l.left_curve_left,
    u.middle_point, l.middle_point, u.left_curve_control_point,
    l.middle_point, l.left_curve_left, u.left_curve_control_point>>

InteriorIndices(upper_shape, lower_shape, u, l) ==
  IF upper_shape /= "Concave" /\ lower_shape /= "Concave"
  THEN <<u.left_curve_left, u.middle_point, l.left_curve_left,
         l.middle_point, l.left_curve_left, u.middle_point>>
  ELSE IF upper_shape = "Concave" /\ lower_shape /= "Concave"
  THEN <<u.left_curve_left, u.left_curve_control_point, l.left_curve_left,
         u.middle_point, l.middle_point, u.left_curve_control_point,
         l.middle_point, l.left_curve_left, u.left_curve_control_point>>
  ELSE IF upper_shape /= "Concave" /\ lower_shape = "Concave"
  THEN <<u.left_curve_left, u.middle_point, l.left_curve_control_point,
         u.middle_point, l.middle_point, l.left_curve_control_point,
         u.left_curve_left, l.left_curve_control_point, l.left_curve_left>>
  ELSE <<u.left_curve_left, u.left_curve_control_point, l.left_curve_left,
         l.left_curve_left, u.left_curve_control_point, l.left_curve_control_point,
         u.middle_point, l.left_curve_control_point, u.left_curve_control_point,
         u.middle_point, l.middle_point, l.left_curve_control_point>>

\* the indices appended to cover_indices.curve_indices by the same match
CurveIndices(upper_shape, lower_shape, u, l) ==
  IF upper_shape /= "Concave" /\ lower_shape /= "Concave"
  THEN (IF upper_shape /= "Flat"
        THEN <<u.left_curve_control_point, u.middle_point, u.left_curve_left>>
        ELSE <<>>)
       \o (IF lower_shape /= "Flat"
           THEN <<l.left_curve_control_point, l.left_curve_left, l.middle_point>>
           ELSE <<>>)
  ELSE IF upper_shape = "Concave" /\ lower_shape /= "Concave"
  THEN <<u.left_curve_control_point, u.left_curve_left, u.middle_point>>
       \o (IF lower_shape /= "Flat"
           THEN <<l.left_curve_control_point, l.left_curve_left, l.middle_point>>
           ELSE <<>>)
  ELSE IF upper_shape /= "Concave" /\ lower_shape = "Concave"
  THEN <<l.left_curve_control_point, l.middle_point, l.left_curve_left>>
       \o (IF upper_shape /= "Flat"
           THEN <<u.left_curve_control_point, u.middle_point, u.left_curve_left>>
           ELSE <<>>)
  ELSE <<u.left_curve_control_point, u.left_curve_left, u.middle_point,
         l.left_curve_control_point, l.middle_point, l.left_curve_left>>

\* a write that lands on the first B-vertex of the library, whatever the
\* index
write_first_loop_blinn_data(loop_blinn_data, vertex_index, data) ==
  SetAt(loop_blinn_data, 0, data)

\* self.library.b_vertex_loop_blinn_data[vertex_index] = data
write_loop_blinn_data(loop_blinn_data, vertex_index, data) ==
  SetAt(loop_blinn_data, vertex_index, data)

\* { let edge = &mut self.active_edges[i]; b_vertex_loop_blinn_data[
\* subdivision.middle_point] = new(edge.endpoint_kind()); edge.toggle_parity() }
finish_middle_point(self, active_edge_index, subdivision) ==
  [self EXCEPT
     !.library.b_vertex_loop_blinn_data =
        write_loop_blinn_data(
          @, subdivision.middle_point,
          LoopBlinnNew(endpoint_kind(At(self.active_edges, active_edge_index)))),
     !.active_edges[active_edge_index + 1] = toggle_parity(@)]

\* the match on the shapes, and add_b_quad
push_b_quad(self, upper_subdivision, lower_subdivision, upper_shape, lower_shape) ==
  [self EXCEPT
     !.library =
       add_b_quad(
         [@ EXCEPT
            !.cover_indices.interior_indices =
               @ \o InteriorIndices(upper_shape, lower_shape,
                                    upper_subdivision, lower_subdivision),
            !.cover_indices.curve_indices =
               @ \o CurveIndices(upper_shape, lower_shape,
                                 upper_subdivision, lower_subdivision)],
         BQuadNew(upper_subdivision.left_curve_left,
                  upper_subdivision.left_curve_control_point,
                  upper_subdivision.middle_point,
                  lower_subdivision.left_curve_left,
                  lower_subdivision.left_curve_control_point,
                  lower_subdivision.middle_point))]

\* the part of emit_b_quads after the hull test: writes the Loop-Blinn data
\* of the two middle points, toggles the parities, appends the triangles
\* and records the B-quad
EmitBQuad(self,upper_active_edge_index, lower_active_edge_index, upper_subdivision, lower_subdivision, upper_shape, lower_shape) ==
  push_b_quad(
    finish_middle_point(
      finish_middle_point(self, upper_active_edge_index, upper_subdivision),
      lower_active_edge_index, lower_subdivision),
    upper_subdivision, lower_subdivision, upper_shape, lower_shape)

\* the hull test of the upper curve
upper_hull_overlaps(upper_shape, upper_curve, lower_curve) ==
  /\ upper_curve.some /\ lower_curve.some
  /\ upper_shape = "Concave"
  /\ LineSideGtEps(CurveBaseline(lower_curve.value), upper_curve.value.c)

\* the hull test of the lower curve
lower_hull_overlaps(lower_shape, upper_curve, lower_curve) ==
  /\ upper_curve.some /\ lower_curve.some
  /\ lower_shape = "Concave"
  /\ LineSideLtNegEps(CurveBaseline(upper_curve.value), lower_curve.value.c)

\* the upper curve is concave and pokes through the baseline of the lower
upper_curve_overlaps(self, upper_subdivision, lower_subdivision) ==
  upper_hull_overlaps(
    shape(upper_subdivision, self.library.b_vertex_loop_blinn_data),
    to_curve(upper_subdivision, self.library.b_vertex_positions),
    to_curve(lower_subdivision, self.library.b_vertex_positions))

\* the lower curve is concave and pokes through the baseline of the upper
lower_curve_overlaps(self, upper_subdivision, lower_subdivision) ==
  lower_hull_overlaps(
    shape(lower_subdivision, self.library.b_vertex_loop_blinn_data),
    to_curve(upper_subdivision, self.library.b_vertex_positions),
    to_curve(lower_subdivision, self.library.b_vertex_positions))

\* [self, up, lo]: the partitioner after the two subdivisions, and the
\* halves of the upper and of the lower curve; first is the subdivision of
\* the concave curve, second that of the other
subdivided_halves(upper_first, first, second) ==
  [self |-> second.self,
   up |-> IF upper_first THEN [left |-> first.left, right |-> first.right]
          ELSE [left |-> second.left, right |-> second.right],
   lo |-> IF upper_first THEN [left |-> second.left, right |-> second.right]
          ELSE [left |-> first.left, right |-> first.right]]

\* the other curve is subdivided at the x of the new midpoint
subdivide_other(other_subdivision, upper_first, first) ==
  subdivided_halves(
    upper_first, first,
    subdivide_active_edge_again_at_x(
      first.self, other_subdivision,
      At(first.self.library.b_vertex_positions, first.left.middle_point).x,
      upper_first))

\* One arm of the hull check: the concave curve is subdivided at t = 1/2
\* and the other curve at the x of the new midpoint.  The arm for the upper
\* curve and the arm for the lower curve differ only in which subdivision
\* comes first.
subdivide_both(self, upper_subdivision, lower_subdivision, upper_first) ==
  CHOOSE halves \in
    {subdivide_other(IF upper_first THEN lower_subdivision
                     ELSE upper_subdivision, upper_first, first) :
       first \in {subdivide_active_edge_again_at_t(
                    self,
                    IF upper_first THEN upper_subdivision
                    ELSE lower_subdivision,
                    RHalf, ~upper_first)}} : TRUE

\* Returns the partitioner after the call.
RECURSIVE emit_b_quads(_, _, _, _, _, _)
\* the recursive call on the left halves only
emit_left_halves(halves, upper_active_edge_index, lower_active_edge_index, iteration) ==
  emit_b_quads(halves.self, upper_active_edge_index, lower_active_edge_index,
               halves.up.left, halves.lo.left, iteration + 1)

\* the two recursive calls, on the left halves and then on the right
emit_halves(halves, upper_active_edge_index, lower_active_edge_index, iteration) ==
  CHOOSE after \in
    {emit_b_quads(left, upper_active_edge_index, lower_active_edge_index,
                  halves.up.right, halves.lo.right, iteration + 1) :
       left \in {emit_b_quads(halves.self, upper_active_edge_index,
                              lower_active_edge_index, halves.up.left,
                              halves.lo.left, iteration + 1)}} : TRUE

emit_b_quads(self, upper_active_edge_index, lower_active_edge_index, upper_subdivision, lower_subdivision, iteration) ==
  IF /\ iteration < MAX_B_QUAD_SUBDIVISIONS
     /\ \/ upper_curve_overlaps(self, upper_subdivision, lower_subdivision)
        \/ lower_curve_overlaps(self, upper_subdivision, lower_subdivision)
  THEN emit_halves(
         subdivide_both(
           self, upper_subdivision, lower_subdivision,
           upper_curve_overlaps(self, upper_subdivision, lower_subdivision)),
         upper_active_edge_index, lower_active_edge_index, iteration)
  ELSE EmitBQuad(
         self, upper_active_edge_index, lower_active_edge_index,
         upper_subdivision, lower_subdivision,
         shape(upper_subdivision, self.library.b_vertex_loop_blinn_data),
         shape(lower_subdivision, self.library.b_vertex_loop_blinn_data))

\* the body of the loop of emit_b_quads_around_active_edge
subdivide_inside(self, active_edge_index, right_x) ==
  [subdivide_active_edge_at(self, active_edge_index, right_x, "Inside").self
     EXCEPT !.active_edges[active_edge_index + 1] = toggle_parity(@)]

\* the loop over the edges inside the fill, skipped
SubdivideNoneInside(self, active_edge_index, lower_active_edge_index, right_x) == self

\* the loop of emit_b_quads_around_active_edge over the edges strictly
\* between the bounds
RECURSIVE SubdivideInside(_, _, _, _)
SubdivideInside(self, active_edge_index, lower_active_edge_index, right_x) ==
  IF active_edge_index >= lower_active_edge_index
  THEN self
  ELSE SubdivideInside(
         IF should_subdivide_active_edge_at(self, active_edge_index, right_x)
         THEN subdivide_inside(self, active_edge_index, right_x)
         ELSE self,
         active_edge_index + 1, lower_active_edge_index, right_x)

\* self.emit_b_quads(.., &upper_curve, &lower_curve, 0)
emit_b_quads_between(upper_active_edge_index, lower_active_edge_index, upper_curve, lower_curve) ==
  emit_b_quads(lower_curve.self, upper_active_edge_index,
               lower_active_edge_index, upper_curve.sub, lower_curve.sub, 0)

\* the loop over the edges inside and the subdivision of the lower edge
subdivide_below(upper_active_edge_index, lower_active_edge_index, right_x, upper_curve) ==
  emit_b_quads_between(
    upper_active_edge_index, lower_active_edge_index, upper_curve,
    subdivide_active_edge_at(
      SubdivideInside(upper_curve.self, upper_active_edge_index + 1,
                      lower_active_edge_index, right_x),
      lower_active_edge_index, right_x, "Lower"))

emit_b_quads_with_result(self, right_x, upper_active_edge_index, lower_active_edge_index, emission_result) ==
  IF emission_result = "NoBQuadEmitted"
  THEN [self |-> self, result |-> emission_result]
  ELSE IF \/ ~should_subdivide_active_edge_at(self, upper_active_edge_index,
                                              right_x)
          \/ ~should_subdivide_active_edge_at(self, lower_active_edge_index,
                                              right_x)
  THEN [self |-> self, result |-> emission_result]
  ELSE [self |->
          subdivide_below(
            upper_active_edge_index, lower_active_edge_index, right_x,
            subdivide_active_edge_at(self, upper_active_edge_index, right_x,
                                     "Upper")),
        result |-> emission_result]

emit_b_quads_within(self, active_edge_index, right_x, bounds) ==
  emit_b_quads_with_result(
    self, right_x, bounds[1], bounds[2],
    BQuadEmissionResultNew(active_edge_index, bounds[1], bounds[2]))

\* Returns [self, result]: the partitioner after the call and the
\* BQuadEmissionResult.
emit_b_quads_around_active_edge(self, active_edge_index, right_x) ==
  IF active_edge_index >= Len(self.active_edges)
  THEN [self |-> self, result |-> "NoBQuadEmitted"]
  ELSE emit_b_quads_within(
         self, active_edge_index, right_x,
         bounding_active_edges_for_fill(self, active_edge_index))

\* ------------------------------------------------------------------------
\* Self-intersections
\* ------------------------------------------------------------------------
RMin(a, b) == IF RLe(a, b) THEN a ELSE b
RMax(a, b) == IF RLe(a, b) THEN b ELSE a

\* y of a Line or Curve at x
SegYAtX(seg, x) ==
  IF "c" \in DOMAIN seg
  THEN CurveSample(seg, CurveSolveTForX(seg, x)).y
  ELSE LineSample(seg, LineSolveTForX(seg, x)).y

\* Curve::intersect(line or curve): the first intersection with x within
\* both domains.  The difference of the two y(x) is taken as a polynomial of
\* degree <= 2 in x over the common domain (true of non-vertical lines and
\* of curves whose x is linear in t), and its least root is returned; the
\* root must be rational.
InUnitRange(s) == RLe(RZero, s) /\ RLe(s, ROne)

\* the point of seg at x
PointOnSeg(seg, x) == Some(Pt(x, SegYAtX(seg, x)))

\* y of seg less y of other, at x
DifferenceOf(y) == RSub(y[1], y[2])
SegDiff(seg, other, x) ==
  DifferenceOf([k \in 1..2 |-> SegYAtX(IF k = 1 THEN seg ELSE other, x)])

\* the lesser of two roots that lies in [0, 1]
LeastInRange(lesser, greater) ==
  IF InUnitRange(lesser) THEN Some(lesser)
  ELSE IF InUnitRange(greater) THEN Some(greater)
  ELSE None
LeastRoot(s1, s2) == LeastInRange(RMin(s1, s2), RMax(s1, s2))

IntersectRoots(root, qb, two_qa) ==
  LeastRoot(RDiv(RSub(RNeg(qb), root), two_qa),
            RDiv(RAdd(RNeg(qb), root), two_qa))

IntersectQuadratic(disc, qb, two_qa) ==
  IF disc.num < 0 THEN None
  ELSE IntersectRoots(Rat(ISqrt(disc.num), ISqrt(disc.den)), qb, two_qa)

IntersectLinear(lin) == IF InUnitRange(lin) THEN Some(lin) ELSE None

\* the least root in [0, 1] of qa s^2 + qb s + d0, where x = lo + s (hi - lo)
IntersectPoly(lo, hi, d0, qa, qb) ==
  IF REq(lo, hi) THEN (IF d0.num = 0 THEN Some(RZero) ELSE None)
  ELSE IF qa.num = 0
  THEN IF qb.num = 0
       THEN (IF d0.num = 0 THEN Some(RZero) ELSE None)
       ELSE IntersectLinear(RDiv(RNeg(d0), qb))
  ELSE IntersectQuadratic(RSub(RMul(qb, qb), RMul(RInt(4), RMul(qa, d0))),
                          qb, RMul(RInt(2), qa))

\* the polynomial through the differences d0, dm, d1 at s = 0, 1/2, 1
IntersectFit(lo, hi, d0, dm, d1) ==
  IntersectPoly(lo, hi, d0,
                RAdd(RSub(RMul(RInt(2), d0), RMul(RInt(4), dm)),
                     RMul(RInt(2), d1)),
                RSub(RSub(RMul(RInt(4), dm), RMul(RInt(3), d0)), d1))

IntersectSampled(lo, hi, mid, d) == IntersectFit(lo, hi, d[lo], d[mid], d[hi])

IntersectHalfway(seg, other, lo, hi, mid) ==
  IntersectSampled(lo, hi, mid,
                   [x \in {lo, mid, hi} |-> SegDiff(seg, other, x)])

IntersectFound(seg, lo, hi, s) ==
  IF s.some THEN PointOnSeg(seg, RAdd(lo, RMul(s.value, RSub(hi, lo))))
  ELSE None

\* the first intersection with x in lo..hi
IntersectWithin(seg, other, lo, hi) ==
  IF RLt(hi, lo) THEN None
  ELSE IntersectFound(seg, lo, hi,
                      IntersectHalfway(seg, other, lo, hi,
                                       RMul(RHalf, RAdd(lo, hi))))

CurveIntersect(seg, other) ==
  IntersectWithin(seg, other,
                  RMax(RMin(seg.a.x, seg.b.x), RMin(other.a.x, other.b.x)),
                  RMin(RMax(seg.a.x, seg.b.x), RMax(other.a.x, other.b.x)))

\* the line or curve of an active edge, up to max_x
active_edge_up_to(self, active_edge, max_x) ==
  IF active_edge.control_point_vertex_index = U32_MAX
  THEN LineSubdivideAtX(
         Line(At(self.library.b_vertex_positions, active_edge.left_vertex_index),
              At(endpoints, active_edge.right_endpoint_index).position),
         max_x)
  ELSE CurveSubdivideAtX(
         Curve(At(self.library.b_vertex_positions, active_edge.left_vertex_index),
               At(self.library.b_vertex_positions,
                  active_edge.control_point_vertex_index),
               At(endpoints, active_edge.right_endpoint_index).position),
         max_x)

\* the match on the two control point indices: line with line, else a
\* curve with the other edge (the upper one when both are curves)
intersect_parts(upper_flat, lower_flat, upper, lower) ==
  IF upper_flat /\ lower_flat THEN LineIntersectWithLine(upper, lower)
  ELSE CurveIntersect(IF upper_flat THEN lower ELSE upper,
                      IF upper_flat THEN upper ELSE lower)

intersect_pair(upper_flat, lower_flat, part) ==
  intersect_parts(upper_flat, lower_flat, part[1], part[2])

intersect_active_edges(self, upper_active_edge, lower_active_edge, max_x) ==
  IF \/ upper_active_edge.left_vertex_index = lower_active_edge.left_vertex_index
     \/ upper_active_edge.right_endpoint_index =
          lower_active_edge.right_endpoint_index
  THEN None
  ELSE intersect_pair(
         upper_active_edge.control_point_vertex_index = U32_MAX,
         lower_active_edge.control_point_vertex_index = U32_MAX,
         [k \in 1..2 |->
            active_edge_up_to(self,
                              IF k = 1 THEN upper_active_edge
                              ELSE lower_active_edge,
                              max_x)])

\* a search that never finds a crossing point
no_crossing_point_for_active_edge(self, upper_active_edge_index, max_x) == None

\* Returns Option<Point2D<f32>>.
crossing_point_for_active_edge(self, upper_active_edge_index, max_x) ==
  intersect_active_edges(self, At(self.active_edges, upper_active_edge_index),
                         At(self.active_edges, upper_active_edge_index + 1),
                         max_x)

\* the if let of the sort: B-quads around the two edges at a crossing point
emit_self_intersection(self, upper_active_edge_index, lower_active_edge_index, crossing_point) ==
  IF crossing_point.some
  THEN emit_b_quads_around_active_edge(
         emit_b_quads_around_active_edge(self, upper_active_edge_index,
                                         crossing_point.value.x).self,
         lower_active_edge_index, crossing_point.value.x).self
  ELSE self

\* a swap of the two edges with nothing emitted
swap_without_emission(self, lower_active_edge_index, x) ==
  [self EXCEPT !.active_edges = VecSwap(@, lower_active_edge_index - 1,
                                        lower_active_edge_index)]

\* the body of the for loop of the sort for a pair that is out of order:
\* the emission at the crossing point, if there is one, then the swap
swap_out_of_order(self, lower_active_edge_index, x) ==
  [emit_self_intersection(
     self, lower_active_edge_index - 1, lower_active_edge_index,
     crossing_point_for_active_edge(self, lower_active_edge_index - 1, x))
     EXCEPT !.active_edges = VecSwap(@, lower_active_edge_index - 1,
                                     lower_active_edge_index)]

\* one pass of the for loop of the sort; returns [self, swapped]
RECURSIVE SortPass(_, _, _, _)
SortPass(self, lower_active_edge_index, x, swapped) ==
  IF lower_active_edge_index >= Len(self.active_edges)
  THEN [self |-> self, swapped |-> swapped]
  ELSE IF active_edges_are_ordered(self, lower_active_edge_index - 1,
                                   lower_active_edge_index, x)
  THEN SortPass(self, lower_active_edge_index + 1, x, swapped)
  ELSE SortPass(swap_out_of_order(self, lower_active_edge_index, x),
                lower_active_edge_index + 1, x, TRUE)

RECURSIVE SortLoop(_, _)
\* if !swapped { break }
sort_again(pass, x) == IF pass.swapped THEN SortLoop(pass.self, x) ELSE pass.self

SortLoop(self, x) == sort_again(SortPass(self, 1, x, FALSE), x)

sort_active_edge_list_and_emit_self_intersections(self, endpoint_index) ==
  SortLoop(self, At(endpoints, endpoint_index).position.x)

\* ------------------------------------------------------------------------
\* Event handlers
\* ------------------------------------------------------------------------
\* the match on a control point index of add_new_edges_for_min_point: gives
\* new active edge k (0 upper, 1 lower) its control point vertex
AddControlPointForMinPoint(self, slot, control_point_index, position, bottom) ==
  IF control_point_index = U32_MAX
  THEN [self EXCEPT !.active_edges[slot + 1].control_point_vertex_index = U32_MAX]
  ELSE [self EXCEPT
          !.active_edges[slot + 1].control_point_vertex_index =
             Len(self.library.b_vertex_loop_blinn_data),
          !.library =
             PushBVertex(
               self.library, At(control_points, control_point_index), path_id,
               LoopBlinnControlPoint(
                 position, At(control_points, control_point_index),
                 At(endpoints,
                    At(self.active_edges, slot).right_endpoint_index).position,
                 bottom))]

\* a new active edge of a Min point, after toggle_parity
NewActiveEdge(left_vertex_index, right_endpoint_index, left_to_right) ==
  [toggle_parity(ActiveEdgeDefault) EXCEPT
     !.left_vertex_index = left_vertex_index,
     !.right_endpoint_index = right_endpoint_index,
     !.left_to_right = left_to_right]

\* the two inserts, the B-vertex of the endpoint and the two edges;
\* prev_above is prev_vector.cross(next_vector) >= 0.0
insert_new_edges(self, endpoint_index, next_active_edge_index, prev_endpoint_index, next_endpoint_index, prev_above) ==
  [self EXCEPT
     !.active_edges =
        VecInsert(
          VecInsert(@, next_active_edge_index,
                    NewActiveEdge(Len(self.library.b_vertex_loop_blinn_data),
                                  IF prev_above THEN next_endpoint_index
                                  ELSE prev_endpoint_index,
                                  prev_above)),
          next_active_edge_index,
          NewActiveEdge(Len(self.library.b_vertex_loop_blinn_data),
                        IF prev_above THEN prev_endpoint_index
                        ELSE next_endpoint_index,
                        ~prev_above)),
     !.library = PushBVertex(@, At(endpoints, endpoint_index).position, path_id,
                             LoopBlinnNew("Endpoint0"))]

add_new_edges(self, endpoint_index, next_active_edge_index, prev_endpoint_index, next_endpoint_index, prev_above) ==
  AddControlPointForMinPoint(
    AddControlPointForMinPoint(
      insert_new_edges(self, endpoint_index, next_active_edge_index,
                       prev_endpoint_index, next_endpoint_index, prev_above),
      next_active_edge_index,
      IF prev_above THEN At(endpoints, endpoint_index).control_point_index
      ELSE At(endpoints, next_endpoint_index).control_point_index,
      At(endpoints, endpoint_index).position, FALSE),
    next_active_edge_index + 1,
    IF prev_above THEN At(endpoints, next_endpoint_index).control_point_index
    ELSE At(endpoints, endpoint_index).control_point_index,
    At(endpoints, endpoint_index).position, TRUE)

add_new_edges_between(self, endpoint_index, next_active_edge_index, prev_endpoint_index, next_endpoint_index) ==
  add_new_edges(
    self, endpoint_index, next_active_edge_index, prev_endpoint_index,
    next_endpoint_index,
    PCross(PSub(At(endpoints, prev_endpoint_index).position,
                At(endpoints, endpoint_index).position),
           PSub(At(endpoints, next_endpoint_index).position,
                At(endpoints, endpoint_index).position)).num >= 0)

\* the two new edges, both left to right
add_new_edges_left_to_right(self, endpoint_index, next_active_edge_index) ==
  [add_new_edges(self, endpoint_index, next_active_edge_index,
                 prev_endpoint_of(endpoint_index),
                 next_endpoint_of(endpoint_index), TRUE)
     EXCEPT !.active_edges[next_active_edge_index + 1].left_to_right = TRUE]

\* the two inserts without the B-vertex of the endpoint
insert_new_edges_only(self, endpoint_index, next_active_edge_index) ==
  [self EXCEPT
     !.active_edges =
        insert_new_edges(self, endpoint_index, next_active_edge_index,
                         prev_endpoint_of(endpoint_index),
                         next_endpoint_of(endpoint_index), TRUE).active_edges]

\* the two new edges with the edge to the previous endpoint always above
add_new_edges_prev_above(self, endpoint_index, next_active_edge_index) ==
  add_new_edges(self, endpoint_index, next_active_edge_index,
                prev_endpoint_of(endpoint_index),
                next_endpoint_of(endpoint_index), TRUE)

add_new_edges_for_min_point(self, endpoint_index, next_active_edge_index) ==
  add_new_edges_between(self, endpoint_index, next_active_edge_index,
                        prev_endpoint_of(endpoint_index),
                        next_endpoint_of(endpoint_index))

\* the end of process_min_endpoint: the top of the heap becomes the next
\* endpoint, and the previous endpoint is pushed unless it is the same
push_neighbours_of_min_point(self, prev_endpoint_index, next_endpoint_index) ==
  [[self EXCEPT
      !.heap = HeapReplaceTop(@, create_point_from_endpoint(next_endpoint_index))]
     EXCEPT
      !.heap = IF next_endpoint_index /= prev_endpoint_index
               THEN HeapPush(@, create_point_from_endpoint(prev_endpoint_index))
               ELSE @]

process_min_endpoint_between(self, endpoint_index, next_active_edge_index) ==
  push_neighbours_of_min_point(
    add_new_edges_for_min_point(
      emit_b_quads_around_active_edge(
        self, next_active_edge_index,
        At(endpoints, endpoint_index).position.x).self,
      endpoint_index, next_active_edge_index),
    prev_endpoint_of(endpoint_index), next_endpoint_of(endpoint_index))

process_min_endpoint(self, endpoint_index) ==
  process_min_endpoint_between(
    self, endpoint_index, find_point_between_active_edges(self, endpoint_index))

\* the block of process_regular_endpoint that makes the B-vertex for this
\* endpoint, unless the left vertex of the edge is already there
update_left_vertex(self, active_edge_index, active_edge, endpoint_position) ==
  IF RGtEps(PSquareLength(
              PSub(endpoint_position,
                   At(self.library.b_vertex_positions,
                      active_edge.left_vertex_index))))
  THEN [self EXCEPT
          !.active_edges[active_edge_index + 1] =
             toggle_parity(
               [active_edge EXCEPT
                  !.left_vertex_index =
                     Len(self.library.b_vertex_loop_blinn_data),
                  !.control_point_vertex_index =
                     Len(self.library.b_vertex_loop_blinn_data) + 1]),
          !.library = PushBVertex(@, endpoint_position, path_id,
                                  LoopBlinnNew(endpoint_kind(active_edge)))]
  ELSE self

\* an edge advanced to the endpoint it came from
retreat_right_endpoint(self, active_edge_index, prev_endpoint_index, next_endpoint_index) ==
  [self EXCEPT
     !.active_edges[active_edge_index + 1].right_endpoint_index =
        IF At(self.active_edges, active_edge_index).left_to_right
        THEN prev_endpoint_index
        ELSE next_endpoint_index]

\* if active_edge.left_to_right { .. = next_endpoint_index } else { .. }
advance_right_endpoint(self, active_edge_index, prev_endpoint_index, next_endpoint_index) ==
  [self EXCEPT
     !.active_edges[active_edge_index + 1].right_endpoint_index =
        IF At(self.active_edges, active_edge_index).left_to_right
        THEN next_endpoint_index
        ELSE prev_endpoint_index]

\* *self.heap.peek_mut().unwrap() = new_point
replace_top_with_right_endpoint(self, active_edge_index) ==
  [self EXCEPT
     !.heap = HeapReplaceTop(
                @, create_point_from_endpoint(
                     At(self.active_edges, active_edge_index).right_endpoint_index))]

\* the match on control_point_index of process_regular_endpoint
add_control_point_of_regular_point(self, active_edge_index, control_point_index, bottom) ==
  IF control_point_index = U32_MAX
  THEN [self EXCEPT
          !.active_edges[active_edge_index + 1].control_point_vertex_index =
             U32_MAX]
  ELSE [self EXCEPT
          !.active_edges[active_edge_index + 1].control_point_vertex_index =
             Len(self.library.b_vertex_loop_blinn_data),
          !.library =
             PushBVertex(
               @, At(control_points, control_point_index), path_id,
               LoopBlinnControlPoint(
                 At(self.library.b_vertex_positions,
                    At(self.active_edges, active_edge_index).left_vertex_index),
                 At(control_points, control_point_index),
                 At(endpoints,
                    At(self.active_edges,
                       active_edge_index).right_endpoint_index).position,
                 bottom))]

\* the control point of the segment the edge now follows
control_point_of_regular_point(self, active_edge_index, prev_endpoint_index, next_endpoint_index, bottom) ==
  add_control_point_of_regular_point(
    self, active_edge_index,
    IF At(self.active_edges, active_edge_index).left_to_right
    THEN control_point_index_before_endpoint(next_endpoint_index)
    ELSE control_point_index_after_endpoint(prev_endpoint_index),
    bottom)

\* process_regular_endpoint after its call of
\* emit_b_quads_around_active_edge
process_regular_endpoint_after(self, active_edge_index, prev_endpoint_index, next_endpoint_index, bottom) ==
  control_point_of_regular_point(
    replace_top_with_right_endpoint(
      advance_right_endpoint(
        update_left_vertex(
          self, active_edge_index, At(self.active_edges, active_edge_index),
          At(endpoints,
             At(self.active_edges,
                active_edge_index).right_endpoint_index).position),
        active_edge_index, prev_endpoint_index, next_endpoint_index),
      active_edge_index),
    active_edge_index, prev_endpoint_index, next_endpoint_index, bottom)

process_regular_endpoint_emitted(emitted, endpoint_index, active_edge_index) ==
  process_regular_endpoint_after(
    emitted.self, active_edge_index, prev_endpoint_of(endpoint_index),
    next_endpoint_of(endpoint_index), emitted.result = "BQuadEmittedAbove")

process_regular_endpoint(self, endpoint_index, active_edge_index) ==
  process_regular_endpoint_emitted(
    emit_b_quads_around_active_edge(
      self, active_edge_index, At(endpoints, endpoint_index).position.x),
    endpoint_index, active_edge_index)

\* the end of process_max_endpoint: heap.pop() and the two removes
\* the end of process_max_endpoint with the second remove only
remove_upper_max_edge(self, active_edge_indices) ==
  [self EXCEPT !.heap = HeapPop(@),
               !.active_edges = VecRemove(@, active_edge_indices[1])]

remove_max_edges(self, active_edge_indices) ==
  [self EXCEPT !.heap = HeapPop(@),
               !.active_edges =
                 VecRemove(VecRemove(@, active_edge_indices[2]),
                           active_edge_indices[1])]

process_max_endpoint(self, endpoint_index, active_edge_indices) ==
  remove_max_edges(
    emit_b_quads_around_active_edge(
      emit_b_quads_around_active_edge(
        self, active_edge_indices[1],
        At(endpoints, endpoint_index).position.x).self,
      active_edge_indices[2], At(endpoints, endpoint_index).position.x).self,
    active_edge_indices)

\* a heap seeded with every endpoint of the subpaths of the range
init_heap_of_every_endpoint(first_subpath_index, last_subpath_index) ==
  SetToBag({create_point_from_endpoint(i) :
              i \in {j \in 0..(Len(endpoints) - 1) :
                       \E k \in first_subpath_index..(last_subpath_index - 1) :
                         /\ At(subpaths, k).first_endpoint_index <= j
                         /\ j < At(subpaths, k).last_endpoint_index}})

\* init_heap: one event for each Min endpoint of the subpaths of the range
init_heap(first_subpath_index, last_subpath_index) ==
  LET mins == {i \in 0..(Len(endpoints) - 1) :
                 /\ \E k \in first_subpath_index..(last_subpath_index - 1) :
                      /\ At(subpaths, k).first_endpoint_index <= i
                      /\ i < At(subpaths, k).last_endpoint_index
                 /\ classify_endpoint(i) = "Min"}
  IN  SetToBag({create_point_from_endpoint(i) : i \in mins})

\* ------------------------------------------------------------------------
\* The sweep driver
\* ------------------------------------------------------------------------
\* the arm of the match that a count selects; the last arm is
\* debug_assert!(false)
match_count(count) ==
  IF count = 0 THEN "Min"
  ELSE IF count = 1 THEN "Regular"
  ELSE IF count = 2 THEN "Max"
  ELSE "DebugAssert"

\* the match on matching_active_edges.count.  The last arm panics in a
\* build with debug assertions and does nothing in a build without them;
\* it is given here as the arm that leaves the partitioner as it is.
dispatch_point(self, point, matching_active_edges) ==
  IF matching_active_edges.count = 0
  THEN [self |-> process_min_endpoint(self, point.endpoint_index),
        kind |-> "Min", endpoint_index |-> point.endpoint_index]
  ELSE IF matching_active_edges.count = 1
  THEN [self |-> process_regular_endpoint(self, point.endpoint_index,
                                          matching_active_edges.indices[1]),
        kind |-> "Regular", endpoint_index |-> point.endpoint_index]
  ELSE IF matching_active_edges.count = 2
  THEN [self |-> process_max_endpoint(self, point.endpoint_index,
                                      matching_active_edges.indices),
        kind |-> "Max", endpoint_index |-> point.endpoint_index]
  ELSE [self |-> self,
        kind |-> "DebugAssert", endpoint_index |-> point.endpoint_index]

\* the handler of the point, on the sorted active edge list
dispatch_sorted(self, point) ==
  dispatch_point(self, point,
                 find_right_point_in_active_edge_list(self, point.endpoint_index))

process_point(self, point) ==
  IF already_visited_point(self.visited_points, point)
  THEN [self |-> [self EXCEPT !.heap = HeapPop(@)],
        kind |-> "Skip", endpoint_index |-> point.endpoint_index]
  ELSE dispatch_sorted(
         sort_active_edge_list_and_emit_self_intersections(
           [self EXCEPT !.visited_points = mark_point_as_visited(@, point)],
           point.endpoint_index),
         point)

\* One iteration of `while self.process_next_point() {}` with a non-empty
\* heap.  Returns [self, kind, endpoint_index]; kind is "Skip" for an
\* already visited point and otherwise names the handler that ran.
process_next_point(self) == process_point(self, HeapPeek(self.heap))

\* ------------------------------------------------------------------------
\* Inputs: closed subpaths over the grid (0..MaxX) x (0..MaxY)
\* ------------------------------------------------------------------------
GridPoints == {Pt(RInt(x), RInt(y)) : x \in 0..MaxX, y \in 0..MaxY}

\* A subpath is given as [positions, controls]: controls[i] is the control
\* point (an Option) of the segment that ends at endpoint i.
IsSome(o) == o.some

ControlCount(controls, i) == Cardinality({j \in 1..i : controls[j].some})

\* the Endpoint records of subpath k, whose control points start at
\* first_control_point in the control point array
EndpointsOf(sub, k, first_control_point) ==
  [i \in 1..Len(sub.positions) |->
     [position |-> sub.positions[i],
      control_point_index |->
        IF sub.controls[i].some
        THEN first_control_point + ControlCount(sub.controls, i) - 1
        ELSE U32_MAX,
      subpath_index |-> k]]

ControlPointsOf(sub) ==
  LET present == SelectSeq(sub.controls, IsSome)
  IN  [i \in 1..Len(present) |-> present[i].value]

\* the slices handed to init_with_raw_data for one or for two subpaths
OneSubpath(a) ==
  [endpoints |-> EndpointsOf(a, 0, 0),
   control_points |-> ControlPointsOf(a),
   subpaths |-> <<[first_endpoint_index |-> 0,
                   last_endpoint_index |-> Len(a.positions)]>>]

TwoSubpaths(a, b) ==
  [endpoints |-> EndpointsOf(a, 0, 0)
                 \o EndpointsOf(b, 1, Len(ControlPointsOf(a))),
   control_points |-> ControlPointsOf(a) \o ControlPointsOf(b),
   subpaths |-> <<[first_endpoint_index |-> 0,
                   last_endpoint_index |-> Len(a.positions)],
                  [first_endpoint_index |-> Len(a.positions),
                   last_endpoint_index |-> Len(a.positions) + Len(b.positions)]>>]

Straight(ps) == [positions |-> ps, controls |-> [i \in DOMAIN ps |-> None]]

\* a path is placed against both axes (the partitioner only ever takes
\* differences of coordinates)
Placed(ps) ==
  /\ \E i \in DOMAIN ps : ps[i].x = RZero
  /\ \E i \in DOMAIN ps : ps[i].y = RZero

\* every closed path of one, two or three endpoints
SmallPaths ==
  {ps \in UNION {[1..n -> GridPoints] : n \in 1..3} : Placed(ps)}

\* the quadrilaterals p0 p1 p2 p3 whose p0 and p2 lie on x = 0 and whose p1
\* and p3 lie to their right: two Min events, then two Max events, with
\* the edges crossing or not
TwoMinQuads ==
  {ps \in [1..4 -> GridPoints] :
     /\ ps[1].x = RZero /\ ps[3].x = RZero
     /\ ps[2].x /= RZero /\ ps[4].x /= RZero
     /\ Placed(ps)}

\* the control points a segment from a to b may have: none, or a point at
\* the top or at the bottom of the grid over the middle of the chord (the x
\* of such a curve is linear in t)
ControlsFor(a, b) ==
  {None} \cup
  (IF a.x = b.x THEN {}
   ELSE {Some(Pt(RMul(RHalf, RAdd(a.x, b.x)), RInt(y))) : y \in {0, MaxY}})

Cyc(ps, i) == ps[IF i = 1 THEN Len(ps) ELSE i - 1]

\* every way of curving the segments of the closed path ps
Curved(ps) ==
  {[positions |-> ps, controls |-> cs] :
     cs \in {c \in [DOMAIN ps -> UNION {ControlsFor(Cyc(ps, i), ps[i]) :
                                          i \in DOMAIN ps}] :
               \A i \in DOMAIN ps : c[i] \in ControlsFor(Cyc(ps, i), ps[i])}}

\* the two-endpoint subpath across the middle of the grid, curved in every
\* way
Lenses == Curved(<<Pt(RZero, RInt(1)), Pt(RInt(MaxX), RInt(1))>>)

\* a triangle that spans the grid, in both orientations
BigTriangles ==
  {<<Pt(RZero, RZero), Pt(RInt(MaxX), RInt(1)), Pt(RZero, RInt(MaxY))>>,
   <<Pt(RZero, RZero), Pt(RZero, RInt(MaxY)), Pt(RInt(MaxX), RInt(1))>>}

\* the triangles of non-zero area that start at their leftmost, topmost
\* point
ProperTriangles ==
  {ps \in [1..3 -> GridPoints] :
     /\ PCross(PSub(ps[2], ps[1]), PSub(ps[3], ps[1])).num /= 0
     /\ \A i \in 2..3 : \/ RLt(ps[1].x, ps[i].x)
                        \/ ps[1].x = ps[i].x /\ RLt(ps[1].y, ps[i].y)}

Inputs ==
  {OneSubpath(Straight(ps)) : ps \in SmallPaths \cup TwoMinQuads}
  \cup {OneSubpath(a) : a \in Lenses}
  \cup UNION {{OneSubpath(a) : a \in Curved(ps)} : ps \in BigTriangles}
  \cup {TwoSubpaths(Straight(a), Straight(b)) :
          a \in BigTriangles, b \in ProperTriangles}

\* ------------------------------------------------------------------------
\* Actions
\* ------------------------------------------------------------------------
Self == [library |-> library, active_edges |-> active_edges, heap |-> heap,
         visited_points |-> visited_points]

\* Partitioner::new(MeshLibrary::new())
Init ==
  /\ endpoints = <<>>
  /\ control_points = <<>>
  /\ subpaths = <<>>
  /\ library = EmptyLibrary
  /\ fill_rule = "Winding"
  /\ heap = EmptyBag
  /\ visited_points = <<>>
  /\ active_edges = <<>>
  /\ path_id = 0
  /\ pc = "idle"
  /\ call = [path_id |-> 0, first_subpath_index |-> 0, last_subpath_index |-> 0,
             start_lengths |-> snapshot_lengths(EmptyLibrary),
             visited_at_entry |-> <<>>]
  /\ ranges = <<>>
  /\ calls = 0
  /\ iterations = 0
  /\ last = [kind |-> "New", endpoint_index |-> 0]

init_with_raw_data(input) ==
  /\ pc = "idle"
  /\ calls = 0
  /\ endpoints = <<>>
  /\ endpoints' = input.endpoints
  /\ control_points' = input.control_points
  /\ subpaths' = input.subpaths
  /\ visited_points' = [i \in 1..Len(input.endpoints) |-> FALSE]
  /\ last' = [kind |-> "InitWithRawData", endpoint_index |-> 0]
  /\ UNCHANGED <<library, fill_rule, heap, active_edges, path_id, pc, call,
                 ranges, calls, iterations>>

set_fill_rule(new_fill_rule) ==
  /\ pc = "idle"
  /\ calls = 0
  /\ fill_rule' = new_fill_rule
  /\ last' = [kind |-> "SetFillRule", endpoint_index |-> 0]
  /\ UNCHANGED <<endpoints, control_points, subpaths, library, heap,
                 visited_points, active_edges, path_id, pc, call, ranges, calls,
                 iterations>>

\* a partition that clears the visited bits as well
partition_resetting_visited(id, first_subpath_index, last_subpath_index) ==
  /\ pc = "idle"
  /\ calls < MaxCalls
  /\ heap' = init_heap(first_subpath_index, last_subpath_index)
  /\ active_edges' = <<>>
  /\ path_id' = id
  /\ visited_points' = [i \in 1..Len(endpoints) |-> FALSE]
  /\ call' = [path_id |-> id, first_subpath_index |-> first_subpath_index,
              last_subpath_index |-> last_subpath_index,
              start_lengths |-> snapshot_lengths(library),
              visited_at_entry |-> visited_points']
  /\ pc' = "partition"
  /\ calls' = calls + 1
  /\ iterations' = 0
  /\ last' = [kind |-> "Partition", endpoint_index |-> 0]
  /\ UNCHANGED <<endpoints, control_points, subpaths, library, fill_rule,
                 ranges>>

\* partition(), up to the loop
partition(id, first_subpath_index, last_subpath_index) ==
  /\ pc = "idle"
  /\ calls < MaxCalls
  /\ heap' = init_heap(first_subpath_index, last_subpath_index)
  /\ active_edges' = <<>>
  /\ path_id' = id
  /\ call' = [path_id |-> id, first_subpath_index |-> first_subpath_index,
              last_subpath_index |-> last_subpath_index,
              start_lengths |-> snapshot_lengths(library),
              visited_at_entry |-> visited_points]
  /\ pc' = "partition"
  /\ calls' = calls + 1
  /\ iterations' = 0
  /\ last' = [kind |-> "Partition", endpoint_index |-> 0]
  /\ UNCHANGED <<endpoints, control_points, subpaths, library, fill_rule,
                 visited_points, ranges>>

\* one iteration of the loop of partition() that returns true
ProcessNextPoint ==
  /\ pc = "partition"
  /\ heap /= EmptyBag
  /\ \E r \in {process_next_point(Self)} :
       /\ library' = r.self.library
       /\ active_edges' = r.self.active_edges
       /\ heap' = r.self.heap
       /\ visited_points' = r.self.visited_points
       /\ last' = [kind |-> r.kind, endpoint_index |-> r.endpoint_index]
  /\ iterations' = iterations + 1
  /\ UNCHANGED <<endpoints, control_points, subpaths, fill_rule, path_id, pc,
                 call, ranges, calls>>

\* a return whose end lengths are the start lengths again
PartitionReturnStartLengths ==
  /\ pc = "partition"
  /\ heap = EmptyBag
  /\ ranges' = Append(ranges,
                      MeshLibraryIndexRangesNew(call.start_lengths,
                                                call.start_lengths))
  /\ pc' = "idle"
  /\ last' = [kind |-> "Return", endpoint_index |-> 0]
  /\ UNCHANGED <<endpoints, control_points, subpaths, library, fill_rule, heap,
                 visited_points, active_edges, path_id, call, calls, iterations>>

\* process_next_point() returns false; partition() returns its ranges
PartitionReturn ==
  /\ pc = "partition"
  /\ heap = EmptyBag
  /\ ranges' = Append(ranges,
                      MeshLibraryIndexRangesNew(call.start_lengths,
                                                snapshot_lengths(library)))
  /\ pc' = "idle"
  /\ last' = [kind |-> "Return", endpoint_index |-> 0]
  /\ UNCHANGED <<endpoints, control_points, subpaths, library, fill_rule, heap,
                 visited_points, active_edges, path_id, call, calls, iterations>>

Next ==
  \/ \E input \in Inputs : init_with_raw_data(input)
  \/ \E r \in {"EvenOdd", "Winding"} : set_fill_rule(r)
  \/ \E first_subpath_index \in 0..(Len(subpaths) - 1) :
       \E last_subpath_index \in (first_subpath_index + 1)..Len(subpaths) :
         partition(calls + 1, first_subpath_index, last_subpath_index)
  \/ ProcessNextPoint
  \/ PartitionReturn

Spec == Init /\ [][Next]_vars

\* `while self.process_next_point() {}`: while the heap is not empty,
\* another iteration is made.  On a behaviour of Spec the steps that count
\* one more iteration are the ProcessNextPoint steps.
Iterate ==
  /\ pc = "partition"
  /\ heap /= EmptyBag
  /\ iterations' = iterations + 1

\* the loop keeps iterating, and partition returns once the loop has ended
FairSpec ==
  Spec /\ WF_iterations(Iterate) /\ WF_vars(PartitionReturn)

\* ------------------------------------------------------------------------
\* The functions of the active edge list, applied to a list of any shape.
\* bounding_active_edges_for_fill and find_right_point_in_active_edge_list
\* read only self.active_edges (and the fill rule); of an active edge they
\* read only left_to_right and right_endpoint_index.  The lists below are
\* all the lists of up to MaxEdges edges over two endpoints, whether or not
\* a sweep builds them: the source has arms for them (an even index that is
\* the last one, a winding number that does not return to zero, a third
\* edge ending at the point).
\* ------------------------------------------------------------------------
MaxEdges == 4

EdgeShapes ==
  {[ActiveEdgeDefault EXCEPT !.right_endpoint_index = r, !.left_to_right = d] :
     r \in 0..1, d \in BOOLEAN}

EdgeLists == UNION {[1..n -> EdgeShapes] : n \in 0..MaxEdges}

EdgeListInit ==
  /\ endpoints = <<>>
  /\ control_points = <<>>
  /\ subpaths = <<>>
  /\ library = EmptyLibrary
  /\ fill_rule \in {"EvenOdd", "Winding"}
  /\ heap = EmptyBag
  /\ visited_points = <<>>
  /\ active_edges \in EdgeLists
  /\ path_id = 0
  /\ pc = "idle"
  /\ call = [path_id |-> 0, first_subpath_index |-> 0, last_subpath_index |-> 0,
             start_lengths |-> snapshot_lengths(EmptyLibrary),
             visited_at_entry |-> <<>>]
  /\ ranges = <<>>
  /\ calls = 0
  /\ iterations = 0
  /\ last = [kind |-> "New", endpoint_index |-> 0]

\* self.bounding_active_edges_for_fill(active_edge_index), and the
\* BQuadEmissionResult that emit_b_quads_around_active_edge makes of it
BoundingActiveEdgesForFill(active_edge_index) ==
  /\ active_edge_index < Len(active_edges)
  /\ \E bounds \in {bounding_active_edges_for_fill(Self, active_edge_index)} :
       last' = [kind |-> "BoundingActiveEdgesForFill", endpoint_index |-> 0,
                active_edge_index |-> active_edge_index,
                result |-> bounds,
                emission |-> BQuadEmissionResultNew(active_edge_index,
                                                    bounds[1], bounds[2])]
  /\ UNCHANGED <<endpoints, control_points, subpaths, library, fill_rule, heap,
                 visited_points, active_edges, path_id, pc, call, ranges, calls,
                 iterations>>

\* self.find_right_point_in_active_edge_list(endpoint_index), and the arm
\* that the match of process_next_point takes on its count
FindRightPointInActiveEdgeList(endpoint_index) ==
  /\ \E matching_active_edges \in
         {find_right_point_in_active_edge_list(Self, endpoint_index)} :
       last' = [kind |-> "FindRightPointInActiveEdgeList",
                endpoint_index |-> endpoint_index,
                result |-> matching_active_edges,
                arm |-> match_count(matching_active_edges.count)]
  /\ UNCHANGED <<endpoints, control_points, subpaths, library, fill_rule, heap,
                 visited_points, active_edges, path_id, pc, call, ranges, calls,
                 iterations>>

EdgeListNext ==
  \/ \E active_edge_index \in 0..(MaxEdges - 1) :
       BoundingActiveEdgesForFill(active_edge_index)
  \/ \E endpoint_index \in 0..1 : FindRightPointInActiveEdgeList(endpoint_index)

EdgeListSpec == EdgeListInit /\ [][EdgeListNext]_vars

\* ------------------------------------------------------------------------
\* The emission of one B-quad, on the shapes of its two sides
\* ------------------------------------------------------------------------
\* number of emissions in a row
MaxLeaves == 2

\* a library with the B-vertices of one B-quad: 0 and 1 the left and the
\* middle point of the upper side, 2 and 3 those of the lower side, 4 and
\* 5 the control points of the two sides, each convex or concave
LeafLibrary(upper_concave, lower_concave) ==
  [EmptyLibrary EXCEPT
     !.b_vertex_positions =
        <<Pt(RInt(0), RInt(0)), Pt(RInt(2), RInt(0)),
          Pt(RInt(0), RInt(2)), Pt(RInt(2), RInt(2)),
          Pt(RInt(1), RInt(0)), Pt(RInt(1), RInt(2))>>,
     !.b_vertex_path_ids = <<0, 0, 0, 0, 0, 0>>,
     !.b_vertex_loop_blinn_data =
        <<LoopBlinnNew("Endpoint0"), LoopBlinnNew("Endpoint0"),
          LoopBlinnNew("Endpoint0"), LoopBlinnNew("Endpoint0"),
          LoopBlinnControlPointData(upper_concave),
          LoopBlinnControlPointData(lower_concave)>>]

\* the SubdividedActiveEdge of a side with the given control point
LeafSubdivision(left_curve_left, left_curve_control_point, middle_point) ==
  [left_curve_left |-> left_curve_left,
   left_curve_control_point |-> left_curve_control_point,
   middle_point |-> middle_point]

LeafInit ==
  /\ endpoints = <<>>
  /\ control_points = <<>>
  /\ subpaths = <<>>
  /\ \E upper_concave \in BOOLEAN, lower_concave \in BOOLEAN :
       library = LeafLibrary(upper_concave, lower_concave)
  /\ fill_rule = "Winding"
  /\ heap = EmptyBag
  /\ visited_points = <<>>
  /\ \E upper_parity \in BOOLEAN, lower_parity \in BOOLEAN :
       active_edges =
         <<[ActiveEdgeDefault EXCEPT !.left_vertex_index = 1,
                                     !.parity = upper_parity],
           [ActiveEdgeDefault EXCEPT !.left_vertex_index = 3,
                                     !.parity = lower_parity]>>
  /\ path_id = 0
  /\ pc = "idle"
  /\ call = [path_id |-> 0, first_subpath_index |-> 0, last_subpath_index |-> 0,
             start_lengths |-> snapshot_lengths(EmptyLibrary),
             visited_at_entry |-> <<>>]
  /\ ranges = <<>>
  /\ calls = 0
  /\ iterations = 0
  /\ last = [kind |-> "New", endpoint_index |-> 0]

\* the part of emit_b_quads after the hull test, for active edges 0 and 1
\* and the two subdivisions
EmitLeaf(upper_subdivision, lower_subdivision) ==
  /\ Len(library.b_quads) < MaxLeaves
  /\ \E after \in
         {EmitBQuad(Self, 0, 1, upper_subdivision, lower_subdivision,
                    shape(upper_subdivision, library.b_vertex_loop_blinn_data),
                    shape(lower_subdivision, library.b_vertex_loop_blinn_data))} :
       /\ library' = after.library
       /\ active_edges' = after.active_edges
  /\ last' = [kind |-> "Leaf", endpoint_index |-> 0,
              upper_subdivision |-> upper_subdivision,
              lower_subdivision |-> lower_subdivision,
              upper_shape |-> shape(upper_subdivision,
                                    library.b_vertex_loop_blinn_data),
              lower_shape |-> shape(lower_subdivision,
                                    library.b_vertex_loop_blinn_data)]
  /\ UNCHANGED <<endpoints, control_points, subpaths, fill_rule, heap,
                 visited_points, path_id, pc, call, ranges, calls, iterations>>

LeafNext ==
  \E upper_control_point \in {U32_MAX, 4}, lower_control_point \in {U32_MAX, 5} :
    EmitLeaf(LeafSubdivision(0, upper_control_point, 1),
             LeafSubdivision(2, lower_control_point, 3))

LeafSpec == LeafInit /\ [][LeafNext]_vars

\* ------------------------------------------------------------------------
\* Properties
\* ------------------------------------------------------------------------
IsPrefix(s, t) == Len(s) <= Len(t) /\ SubSeq(t, 1, Len(s)) = s

\* a step of the event loop: one call of process_next_point that returned
\* true
Event == pc = "partition" /\ pc' = "partition"

\* the step ran the Min, Regular or Max handler on endpoint i
Handled(i) ==
  /\ Event
  /\ last'.kind \in {"Min", "Regular", "Max"}
  /\ last'.endpoint_index = i

\* the endpoints of the subpaths [first, last) of the current call
RangeEndpoints ==
  {i \in 0..(Len(endpoints) - 1) :
     \E k \in call.first_subpath_index..(call.last_subpath_index - 1) :
       /\ At(subpaths, k).first_endpoint_index <= i
       /\ i < At(subpaths, k).last_endpoint_index}

\* C1: at every event boundary of partition and at its return, the three
\* vertex arrays b_vertex_positions, b_vertex_path_ids and
\* b_vertex_loop_blinn_data have the same length.
C1_VertexArraysSameLength ==
  (pc = "partition" \/ last.kind = "Return") =>
    /\ Len(library.b_vertex_positions) = Len(library.b_vertex_path_ids)
    /\ Len(library.b_vertex_positions) = Len(library.b_vertex_loop_blinn_data)

\* a call has returned after appending vertices one at a time and three at
\* a time
C1_Witness ==
  /\ last.kind = "Return"
  /\ Len(library.cover_indices.curve_indices) > 0
  /\ Len(library.b_vertex_positions) > 3

\* C2: within a partition call an endpoint is handled at most once: its
\* visited bit goes from false to true exactly in the step that handles it,
\* is never cleared, and an event popped for a visited endpoint changes
\* nothing but the heap, which loses that one entry.
C2_HandledAtMostOnce ==
  [][\A i \in 0..(Len(visited_points) - 1) :
       /\ At(visited_points, i) => At(visited_points', i)
       /\ (~At(visited_points, i) /\ At(visited_points', i)) <=> Handled(i)
       /\ (Event /\ At(visited_points, i)
             /\ HeapPeek(heap).endpoint_index = i) =>
            /\ last'.kind = "Skip"
            /\ library' = library
            /\ active_edges' = active_edges
            /\ visited_points' = visited_points
            /\ heap' (+) SetToBag({HeapPeek(heap)}) = heap]_vars

\* a stale entry was popped during the first call on the partitioner
C2_Witness == last.kind = "Skip" /\ calls = 1 /\ pc = "partition"

\* C3: a partition call in progress returns, and at its return every
\* endpoint of the subpaths [first, last) has its visited bit set.
C3_TerminatesAllVisited ==
  \A c \in 1..MaxCalls :
    (pc = "partition" /\ calls = c) ~>
      (/\ pc = "idle"
       /\ calls = c
       /\ last.kind = "Return"
       /\ \A i \in RangeEndpoints : At(visited_points, i))

\* the first call on a two-subpath input has returned with every bit set
C3_Witness ==
  /\ last.kind = "Return"
  /\ calls = 1
  /\ Len(subpaths) = 2
  /\ RangeEndpoints = 0..(Len(endpoints) - 1)
  /\ \A i \in RangeEndpoints :
       At(visited_points, i) /\ ~At(call.visited_at_entry, i)

\* i is the index of a B-vertex of the library
IsVertexIndex(i) == 0 <= i /\ i < Len(library.b_vertex_positions)

\* the vertex fields of a B-quad that name endpoints, and those that name
\* control points
BQuadEndpointFields(q) ==
  {q.upper_left_vertex_index, q.upper_right_vertex_index,
   q.lower_left_vertex_index, q.lower_right_vertex_index}
BQuadControlPointFields(q) ==
  {q.upper_control_point_vertex_index, q.lower_control_point_vertex_index}

CoverIndicesInRange ==
  /\ \A k \in DOMAIN library.cover_indices.interior_indices :
       IsVertexIndex(library.cover_indices.interior_indices[k])
  /\ \A k \in DOMAIN library.cover_indices.curve_indices :
       IsVertexIndex(library.cover_indices.curve_indices[k])

\* C4, as stated: after a partition call every index of interior_indices,
\* of curve_indices and every field of every B-quad is less than the length
\* of b_vertex_positions.
C4_EveryFieldInRange ==
  pc = "idle" =>
    /\ CoverIndicesInRange
    /\ \A k \in DOMAIN library.b_quads :
         \A i \in BQuadEndpointFields(library.b_quads[k])
                  \cup BQuadControlPointFields(library.b_quads[k]) :
           IsVertexIndex(i)

\* C4, amended: after a partition call every index of interior_indices and
\* of curve_indices and every endpoint field of every B-quad is less than
\* the length of b_vertex_positions; a control-point field is less than
\* that length or is the sentinel u32::MAX, which a straight edge records.
C4_IndicesInRangeOrSentinel ==
  pc = "idle" =>
    /\ CoverIndicesInRange
    /\ \A k \in DOMAIN library.b_quads :
         /\ \A i \in BQuadEndpointFields(library.b_quads[k]) : IsVertexIndex(i)
         /\ \A i \in BQuadControlPointFields(library.b_quads[k]) :
              i = U32_MAX \/ IsVertexIndex(i)

\* a call has returned B-quads with edges of both kinds: a straight edge,
\* recorded with the sentinel, and a curved edge, recorded with its control
\* point's vertex
C4_Witness ==
  /\ last.kind = "Return"
  /\ \E k \in DOMAIN library.b_quads :
       U32_MAX \in BQuadControlPointFields(library.b_quads[k])
  /\ \E k \in DOMAIN library.b_quads :
       \E i \in BQuadControlPointFields(library.b_quads[k]) : i /= U32_MAX
  /\ Len(library.cover_indices.curve_indices) > 0

PositionOf(i) == At(library.b_vertex_positions, i)

\* C5: in every recorded B-quad the upper-left and lower-left vertices have
\* the same x, the upper-middle and lower-middle vertices have the same x,
\* and the left x is not greater than the middle x.
C5_BQuadsAligned ==
  \A k \in DOMAIN library.b_quads :
    LET q == library.b_quads[k]
    IN  /\ PositionOf(q.upper_left_vertex_index).x
             = PositionOf(q.lower_left_vertex_index).x
        /\ PositionOf(q.upper_right_vertex_index).x
             = PositionOf(q.lower_right_vertex_index).x
        /\ RLe(PositionOf(q.upper_left_vertex_index).x,
               PositionOf(q.upper_right_vertex_index).x)

\* a straight-edged path of four endpoints has been swept through Min,
\* Regular and Max events and through a self-intersection: a B-quad starts
\* at a crossing, which lies at no endpoint's x
C5_Witness ==
  /\ last.kind = "Return"
  /\ control_points = <<>>
  /\ Len(endpoints) = 4
  /\ \E k \in DOMAIN library.b_quads :
       PositionOf(library.b_quads[k].upper_left_vertex_index).x.den /= 1

\* the sum of f[e] over the elements e of S
RECURSIVE RSum(_, _)
RSum(S, f) ==
  IF S = {} THEN RZero
  ELSE LET e == CHOOSE e \in S : TRUE
       IN  RAdd(f[e], RSum(S \ {e}, f))

RAbs(a) == IF a.num < 0 THEN RNeg(a) ELSE a

\* twice the signed area of the triangle a b c
TriangleArea2(a, b, c) == PCross(PSub(b, a), PSub(c, a))

\* the triangles the current call has appended to interior_indices, by the
\* position (1-based) of their first index
CallTriangles ==
  {k \in (call.start_lengths.cover_interior_indices + 1)..
           Len(library.cover_indices.interior_indices) :
     (k - call.start_lengths.cover_interior_indices) % 3 = 1}

TrianglePoint(k, j) ==
  PositionOf(library.cover_indices.interior_indices[k + j])

\* twice the area the triangles cover when no two of them overlap
InteriorAbsArea2 ==
  RSum(CallTriangles,
       [k \in CallTriangles |->
          RAbs(TriangleArea2(TrianglePoint(k, 0), TrianglePoint(k, 1),
                        TrianglePoint(k, 2)))])

\* the segments of the subpaths of the call: segment i runs from endpoint i
\* to the endpoint after it on its subpath
SegmentFrom(i) == At(endpoints, i).position
SegmentTo(i) ==
  LET subpath == At(subpaths, At(endpoints, i).subpath_index)
  IN  At(endpoints, IF i + 1 < subpath.last_endpoint_index THEN i + 1
                    ELSE subpath.first_endpoint_index).position

\* the x at which the sweep line meets an endpoint or a crossing
CriticalXs ==
  {SegmentFrom(i).x : i \in RangeEndpoints}
  \cup {LineIntersectWithLine(Line(SegmentFrom(i), SegmentTo(i)),
                              Line(SegmentFrom(j), SegmentTo(j))).value.x :
          <<i, j>> \in {ij \in RangeEndpoints \X RangeEndpoints :
             LineIntersectWithLine(Line(SegmentFrom(ij[1]), SegmentTo(ij[1])),
                                   Line(SegmentFrom(ij[2]), SegmentTo(ij[2]))).some}}

\* the strips between two critical x with none between them
Strips ==
  {s \in CriticalXs \X CriticalXs :
     /\ RLt(s[1], s[2])
     /\ ~\E x \in CriticalXs : RLt(s[1], x) /\ RLt(x, s[2])}

Spans(i, s) ==
  LET a == SegmentFrom(i)
      b == SegmentTo(i)
  IN  \/ RLe(a.x, s[1]) /\ RLe(s[2], b.x)
      \/ RLe(b.x, s[1]) /\ RLe(s[2], a.x)

\* the y of segment i at x
SegmentY(i, x) ==
  LineSample(Line(SegmentFrom(i), SegmentTo(i)),
             LineSolveTForX(Line(SegmentFrom(i), SegmentTo(i)), x)).y

\* segment i lies above segment j in strip s (or is the same line, with a
\* smaller index)
Above(i, j, s) ==
  LET yi == RAdd(SegmentY(i, s[1]), SegmentY(i, s[2]))
      yj == RAdd(SegmentY(j, s[1]), SegmentY(j, s[2]))
  IN  RLt(yi, yj) \/ (yi = yj /\ i < j)

Direction(i) == IF RLt(SegmentFrom(i).x, SegmentTo(i).x) THEN 1 ELSE -1

RECURSIVE ISum(_, _)
ISum(S, f) ==
  IF S = {} THEN 0
  ELSE LET e == CHOOSE e \in S : TRUE IN f[e] + ISum(S \ {e}, f)

\* twice the filled area of strip s under the rule
StripArea2(s, rule) ==
  LET spanning == {i \in RangeEndpoints : Spans(i, s)}
      below(i) == {j \in spanning : Above(i, j, s)}
      next(i) == CHOOSE j \in below(i) : \A k \in below(i) : k = j \/ Above(j, k, s)
      winding(i) ==
        LET upto == {j \in spanning : j = i \/ Above(j, i, s)}
        IN  ISum(upto, [j \in upto |-> Direction(j)])
      filled(i) == IF rule = "Winding" THEN winding(i) /= 0
                   ELSE winding(i) % 2 /= 0
      band(i) ==
        IF below(i) = {} \/ ~filled(i) THEN RZero
        ELSE RMul(RSub(s[2], s[1]),
                  RAdd(RSub(SegmentY(next(i), s[1]), SegmentY(i, s[1])),
                       RSub(SegmentY(next(i), s[2]), SegmentY(i, s[2]))))
  IN  RSum(spanning, [i \in spanning |-> band(i)])

FillArea2(rule) == RSum(Strips, [s \in Strips |-> StripArea2(s, rule)])

\* a call over straight subpaths none of whose endpoints an earlier call has
\* visited has returned
FreshReturn ==
  /\ last.kind = "Return"
  /\ control_points = <<>>
  /\ \A i \in RangeEndpoints : ~At(call.visited_at_entry, i)

\* C6: the B-quads produced for a path tile its interior without overlap:
\* when a call over fresh straight subpaths returns, the areas of the
\* triangles it appended to interior_indices sum to the area the subpaths
\* fill under the fill rule.  The areas are exact rationals, so "within
\* epsilon" is equality; each triangle counts with its absolute area, which
\* is the reading under which a path of either orientation can satisfy the
\* statement.
C6_InteriorTilesFill ==
  FreshReturn => InteriorAbsArea2 = FillArea2(fill_rule)

\* the buffers a MeshLibraryIndexRanges covers, and their lengths now
RangeBuffers ==
  {"b_quads", "b_vertex_positions", "cover_interior_indices",
   "cover_curve_indices"}
BufferLength(b) ==
  CASE b = "b_quads" -> Len(library.b_quads)
    [] b = "b_vertex_positions" -> Len(library.b_vertex_positions)
    [] b = "cover_interior_indices" -> Len(library.cover_indices.interior_indices)
    [] b = "cover_curve_indices" -> Len(library.cover_indices.curve_indices)

\* C8: the ranges partition returns start at the lengths the buffers had at
\* the call's entry and end at their lengths at its return: the first call
\* on a new library starts at 0, each later call starts where the call
\* before it ended, and the last returned range ends at the present length.
C8_RangesContiguous ==
  \A k \in 1..Len(ranges) : \A b \in RangeBuffers :
    /\ ranges[k][b][1] = (IF k = 1 THEN 0 ELSE ranges[k - 1][b][2])
    /\ ranges[k][b][1] <= ranges[k][b][2]
    /\ (k = Len(ranges) /\ pc = "idle") => ranges[k][b][2] = BufferLength(b)
    /\ (k = Len(ranges) /\ pc = "partition") =>
         ranges[k][b][2] = call.start_lengths[
           IF b = "b_vertex_positions" THEN "b_vertices" ELSE b]

\* two calls have returned, and each of them appended B-quads and vertices
C8_Witness ==
  /\ Len(ranges) = 2
  /\ pc = "idle"
  /\ \A k \in 1..2 : \A b \in {"b_quads", "b_vertex_positions"} :
       ranges[k][b][1] < ranges[k][b][2]

\* C9: during a partition call no buffer shrinks and nothing that a buffer
\* held before a step is changed by it, but for the Loop-Blinn datum of a
\* vertex that was appended during the same call and is the middle point
\* (upper-right or lower-right vertex) of a B-quad recorded by the step.
C9_AppendOnly ==
  [][pc = "partition" =>
       /\ IsPrefix(library.b_vertex_positions, library'.b_vertex_positions)
       /\ IsPrefix(library.b_vertex_path_ids, library'.b_vertex_path_ids)
       /\ IsPrefix(library.cover_indices.interior_indices,
                   library'.cover_indices.interior_indices)
       /\ IsPrefix(library.cover_indices.curve_indices,
                   library'.cover_indices.curve_indices)
       /\ IsPrefix(library.b_quads, library'.b_quads)
       /\ Len(library.b_vertex_loop_blinn_data)
            <= Len(library'.b_vertex_loop_blinn_data)
       /\ \A i \in 0..(Len(library.b_vertex_loop_blinn_data) - 1) :
            At(library'.b_vertex_loop_blinn_data, i)
              /= At(library.b_vertex_loop_blinn_data, i) =>
                /\ i >= call.start_lengths.b_vertices
                /\ \E k \in (Len(library.b_quads) + 1)..Len(library'.b_quads) :
                     i \in {library'.b_quads[k].upper_right_vertex_index,
                            library'.b_quads[k].lower_right_vertex_index}]_vars

\* a second call is appending B-quads behind those of the first call
C9_Witness ==
  /\ pc = "partition"
  /\ calls = 2
  /\ call.start_lengths.b_quads > 0
  /\ Len(library.b_quads) > call.start_lengths.b_quads
  /\ Len(library.b_vertex_loop_blinn_data) > call.start_lengths.b_vertices

\* the sweep order: x ascending, then y ascending, then endpoint_index
\* ascending
SweepLess(p, q) ==
  \/ RLt(p.position.x, q.position.x)
  \/ /\ p.position.x = q.position.x
     /\ RLt(p.position.y, q.position.y)
  \/ /\ p.position = q.position
     /\ p.endpoint_index < q.endpoint_index

\* the event point of every endpoint
EventPoints ==
  {create_point_from_endpoint(i) : i \in 0..(Len(endpoints) - 1)}

\* C10: the sweep order is a strict total order on the event points, the
\* comparator of the heap is exactly its reverse, and the top of the heap
\* is the sweep-order minimum of the heap's contents.
C10_SweepOrderReversed ==
  /\ \A p \in EventPoints : ~SweepLess(p, p) /\ PointCmp(p, p) = "Equal"
  /\ \A p \in EventPoints : \A q \in EventPoints :
       /\ p /= q => (SweepLess(p, q) \/ SweepLess(q, p))
       /\ ~(SweepLess(p, q) /\ SweepLess(q, p))
       /\ SweepLess(p, q) <=> PointCmp(p, q) = "Greater"
       /\ SweepLess(q, p) <=> PointCmp(p, q) = "Less"
       /\ \A r \in EventPoints :
            SweepLess(p, q) /\ SweepLess(q, r) => SweepLess(p, r)
  /\ heap /= EmptyBag =>
       /\ BagToSet(heap) \subseteq EventPoints
       /\ \A q \in BagToSet(heap) :
            q = HeapPeek(heap) \/ SweepLess(HeapPeek(heap), q)

\* the heap holds two events of one x and different y, and the input has
\* two endpoints at one position
C10_Witness ==
  /\ \E p \in BagToSet(heap) : \E q \in BagToSet(heap) :
       /\ p.position.x = q.position.x
       /\ p.position.y /= q.position.y
  /\ \E p \in EventPoints : \E q \in EventPoints :
       p /= q /\ p.position = q.position

\* ------------------------------------------------------------------------
\* The fill rules (EdgeListSpec)
\* ------------------------------------------------------------------------
\* the last step applied bounding_active_edges_for_fill under the rule
Bounded(rule) == last.kind = "BoundingActiveEdgesForFill" /\ fill_rule = rule

\* C11, as stated: under the even-odd rule bounding_active_edges_for_fill(i)
\* returns (i, i) when edge i is the only edge of the list, otherwise
\* (i-1, i) when i is odd or i is the last index of the list, and (i, i+1)
\* in every other case.
C11_AdjacentOrLast ==
  Bounded("EvenOdd") =>
    last.result =
      IF Len(active_edges) = 1
      THEN <<last.active_edge_index, last.active_edge_index>>
      ELSE IF \/ last.active_edge_index % 2 = 1
              \/ last.active_edge_index = Len(active_edges) - 1
      THEN <<last.active_edge_index - 1, last.active_edge_index>>
      ELSE <<last.active_edge_index, last.active_edge_index + 1>>

\* C11, amended: under the even-odd rule the edges are paired from the top
\* of the list, 0 with 1, 2 with 3, and so on; bounding_active_edges_for_fill(i)
\* returns the pair of i, and (i, i) when the list ends before the partner
\* of i (i is even and is the last index).
C11_PairedFromTop ==
  Bounded("EvenOdd") =>
    last.result =
      IF 2 * (last.active_edge_index \div 2) + 1 < Len(active_edges)
      THEN <<2 * (last.active_edge_index \div 2),
             2 * (last.active_edge_index \div 2) + 1>>
      ELSE <<last.active_edge_index, last.active_edge_index>>

\* the function was applied to the last edge of a list of three edges, and
\* returned (2, 2)
C11_Witness ==
  /\ Bounded("EvenOdd")
  /\ Len(active_edges) = 3
  /\ last.active_edge_index = 2
  /\ last.result = <<2, 2>>

\* the winding number above edge n: the sum of the contributions of the
\* edges 0..n-1
RECURSIVE WindingAbove(_, _)
WindingAbove(edges, n) ==
  IF n = 0 THEN 0
  ELSE WindingAbove(edges, n - 1)
       + (IF At(edges, n - 1).left_to_right THEN 1 ELSE -1)

\* the indices k >= i after which the winding number is zero
ReturnsToZero(edges, i) ==
  {k \in i..(Len(edges) - 1) : WindingAbove(edges, k + 1) = 0}

\* C12: under the non-zero winding rule bounding_active_edges_for_fill(i)
\* returns (upper, lower) where upper is the greatest j <= i with winding
\* number zero above edge j and, when the winding number is zero after some
\* edge k >= i, lower is the least such k.
C12_WindingBounds ==
  Bounded("Winding") =>
    /\ last.result[1] \in 0..last.active_edge_index
    /\ WindingAbove(active_edges, last.result[1]) = 0
    /\ \A j \in (last.result[1] + 1)..last.active_edge_index :
         WindingAbove(active_edges, j) /= 0
    /\ ReturnsToZero(active_edges, last.active_edge_index) /= {} =>
         /\ last.result[2] \in ReturnsToZero(active_edges, last.active_edge_index)
         /\ \A k \in ReturnsToZero(active_edges, last.active_edge_index) :
              last.result[2] <= k

\* the function was applied to an inner edge of two nested pairs and
\* returned the outer pair
C12_Witness ==
  /\ Bounded("Winding")
  /\ Len(active_edges) = 4
  /\ last.active_edge_index \in {1, 2}
  /\ last.result = <<0, 3>>
  /\ last.emission = "BQuadEmittedAround"

\* the last step applied bounding_active_edges_for_fill under the winding
\* rule to an edge at or after which the winding number never returns to
\* zero
OutsideBalancedPair ==
  /\ Bounded("Winding")
  /\ ReturnsToZero(active_edges, last.active_edge_index) = {}

\* C13, as stated: under the non-zero winding rule, when the winding number
\* never returns to zero at or after edge i, bounding_active_edges_for_fill(i)
\* returns (i, i) and emit_b_quads_around_active_edge emits nothing for it.
C13_OutsideReturnsItself ==
  OutsideBalancedPair =>
    /\ last.result = <<last.active_edge_index, last.active_edge_index>>
    /\ last.emission = "NoBQuadEmitted"

\* C13, amended: under the non-zero winding rule, when the winding number
\* never returns to zero at or after edge i, bounding_active_edges_for_fill(i)
\* returns (upper, i) with upper the greatest j <= i that has winding number
\* zero above it.  This is (i, i), and nothing is emitted, exactly when the
\* winding number above edge i is zero; otherwise upper < i and the result
\* of the emission is BQuadEmittedAbove.
C13_OutsideBoundedAbove ==
  OutsideBalancedPair =>
    /\ last.result[2] = last.active_edge_index
    /\ last.result[1] \in 0..last.active_edge_index
    /\ WindingAbove(active_edges, last.result[1]) = 0
    /\ \A j \in (last.result[1] + 1)..last.active_edge_index :
         WindingAbove(active_edges, j) /= 0
    /\ last.emission =
         IF WindingAbove(active_edges, last.active_edge_index) = 0
         THEN "NoBQuadEmitted"
         ELSE "BQuadEmittedAbove"

\* the function was applied to the second of two left-to-right edges and
\* returned the pair (0, 1)
C13_Witness ==
  /\ OutsideBalancedPair
  /\ Len(active_edges) = 2
  /\ last.active_edge_index = 1
  /\ last.result = <<0, 1>>
  /\ last.emission = "BQuadEmittedAbove"

\* ------------------------------------------------------------------------
\* The edges that end at the event point (EdgeListSpec)
\* ------------------------------------------------------------------------
\* the active edges whose right endpoint is the endpoint
MatchingEdges(endpoint_index) ==
  {i \in 0..(Len(active_edges) - 1) :
     At(active_edges, i).right_endpoint_index = endpoint_index}

\* the k lowest elements of a set of indices, in increasing order
RECURSIVE Lowest(_, _)
Lowest(S, k) ==
  IF k = 0 \/ S = {} THEN <<>>
  ELSE <<CHOOSE i \in S : \A j \in S : i <= j>>
       \o Lowest(S \ {CHOOSE i \in S : \A j \in S : i <= j}, k - 1)

\* the last step looked for the edges that end at the point, and more than
\* two do
MoreThanTwoMatching ==
  /\ last.kind = "FindRightPointInActiveEdgeList"
  /\ Cardinality(MatchingEdges(last.endpoint_index)) > 2

\* C14, as stated: if more than two active edges end at the event point,
\* the match on the count takes its last arm, the invariant violation, and
\* none of the Min, Regular and Max handlers runs.
C14_MoreThanTwoIsFatal ==
  MoreThanTwoMatching =>
    /\ last.result.count > 2
    /\ last.arm = "DebugAssert"

\* C14, amended: find_right_point_in_active_edge_list reports at most two
\* edges, the lowest two that end at the point, so the match never takes
\* its last arm; if more than two active edges end at the event point the
\* count is 2 and the Max handler runs on the lowest two.
C14_AtMostTwoReported ==
  last.kind = "FindRightPointInActiveEdgeList" =>
    /\ last.result.count <= 2
    /\ last.result.count <= Cardinality(MatchingEdges(last.endpoint_index))
    /\ Cardinality(MatchingEdges(last.endpoint_index)) >= 2 =>
         last.result.count = 2
    /\ SubSeq(last.result.indices, 1, last.result.count)
         = Lowest(MatchingEdges(last.endpoint_index), 2)
    /\ last.arm /= "DebugAssert"
    /\ MoreThanTwoMatching => last.arm = "Max"

\* three edges of the list end at the point; the first two were reported
C14_Witness ==
  /\ MoreThanTwoMatching
  /\ Cardinality(MatchingEdges(last.endpoint_index)) = 3
  /\ last.result.count = 2
  /\ last.arm = "Max"

\* ------------------------------------------------------------------------
\* Subdivision of B-quads (Spec)
\* ------------------------------------------------------------------------
\* the partitioner is at an event: the loop of partition is about to
\* process the top of the heap
AtEvent == pc = "partition" /\ heap /= EmptyBag

\* the number of B-quads that emit_b_quads_around_active_edge records for
\* the active edge at the x of the event
BQuadsEmittedAround(active_edge_index) ==
  Len(emit_b_quads_around_active_edge(Self, active_edge_index,
                                      HeapPeek(heap).position.x)
        .self.library.b_quads)
  - Len(library.b_quads)

\* C15: emit_b_quads subdivides at most MAX_B_QUAD_SUBDIVISIONS = 8 times
\* in a row and then emits the B-quad whether or not the hulls overlap, so
\* a call of emit_b_quads_around_active_edge, on any active edge at any
\* event, returns and records at most 2^8 = 256 B-quads.
C15_SubdivisionBounded ==
  AtEvent =>
    \A active_edge_index \in 0..(Len(active_edges) - 1) :
      BQuadsEmittedAround(active_edge_index) <= 256

\* the two curves of the event overlap however often they are halved: the
\* call records all of the 256 B-quads
C15_Witness ==
  /\ AtEvent
  /\ Len(active_edges) = 2
  /\ BQuadsEmittedAround(0) = 256

\* ------------------------------------------------------------------------
\* The figure-eight (Spec)
\* ------------------------------------------------------------------------
\* the crossing points that one pass of the sort finds from
\* lower_active_edge_index on, in the order in which it finds them
RECURSIVE PassCrossings(_, _, _)
PassCrossings(self, lower_active_edge_index, x) ==
  IF lower_active_edge_index >= Len(self.active_edges)
  THEN <<>>
  ELSE IF active_edges_are_ordered(self, lower_active_edge_index - 1,
                                   lower_active_edge_index, x)
  THEN PassCrossings(self, lower_active_edge_index + 1, x)
  ELSE (IF crossing_point_for_active_edge(self, lower_active_edge_index - 1, x).some
        THEN <<crossing_point_for_active_edge(self, lower_active_edge_index - 1,
                                              x).value>>
        ELSE <<>>)
       \o PassCrossings(swap_out_of_order(self, lower_active_edge_index, x),
                        lower_active_edge_index + 1, x)

\* the crossing points that the passes of the sort find, one pass after
\* the other until a pass swaps nothing
RECURSIVE LoopCrossings(_, _)
LoopCrossings(self, x) ==
  PassCrossings(self, 1, x)
  \o (IF SortPass(self, 1, x, FALSE).swapped
      THEN LoopCrossings(SortPass(self, 1, x, FALSE).self, x)
      ELSE <<>>)

\* the self-intersections that process_next_point detects at the event it
\* is about to process: none when the point has been visited
EventCrossings ==
  IF already_visited_point(visited_points, HeapPeek(heap))
  THEN <<>>
  ELSE LoopCrossings(Self, HeapPeek(heap).position.x)

FigureEight ==
  <<Pt(RInt(0), RInt(0)), Pt(RInt(2), RInt(2)), Pt(RInt(0), RInt(2)),
    Pt(RInt(2), RInt(0))>>

\* the first partition of the straight figure-eight under the even-odd rule
PartitionsFigureEight ==
  /\ control_points = <<>>
  /\ Len(endpoints) = 4
  /\ \A i \in 1..4 : endpoints[i].position = FigureEight[i]
  /\ fill_rule = "EvenOdd"
  /\ calls = 1

\* C16: in the partition of the figure-eight (0,0) (2,2) (0,2) (2,0) under
\* the even-odd rule the only event at which the sort detects a
\* self-intersection is the first event at x = 2, the Max point (2,0), and
\* it detects one, at (1,1); when the partition returns it has recorded 4
\* B-quads and the interior triangles cover an area of 2.
C16_FigureEight ==
  PartitionsFigureEight =>
    /\ AtEvent =>
         EventCrossings =
           IF /\ HeapPeek(heap).endpoint_index = 3
              /\ ~already_visited_point(visited_points, HeapPeek(heap))
           THEN <<Pt(RInt(1), RInt(1))>>
           ELSE <<>>
    /\ last.kind = "Return" =>
         /\ Len(library.b_quads) = 4
         /\ InteriorAbsArea2 = RInt(4)

\* the partition of the figure-eight has returned
C16_Witness ==
  /\ PartitionsFigureEight
  /\ last.kind = "Return"
  /\ Len(library.b_quads) = 4

\* ------------------------------------------------------------------------
\* Triangles (Spec)
\* ------------------------------------------------------------------------
\* the first partition of a single subpath of three straight segments that
\* form a triangle of non-zero area has returned
TrianglePartitioned ==
  /\ control_points = <<>>
  /\ Len(subpaths) = 1
  /\ Len(endpoints) = 3
  /\ TriangleArea2(endpoints[1].position, endpoints[2].position,
                   endpoints[3].position).num /= 0
  /\ calls = 1
  /\ last.kind = "Return"

\* the x coordinates of the endpoints
EndpointXs == {endpoints[i].position.x : i \in 1..Len(endpoints)}

\* both bounds of every recorded B-quad are flat
AllFlat ==
  \A k \in 1..Len(library.b_quads) :
    /\ library.b_quads[k].upper_control_point_vertex_index = U32_MAX
    /\ library.b_quads[k].lower_control_point_vertex_index = U32_MAX

\* C17, as stated: for every triangle of three straight segments partition
\* records exactly 1 B-quad with both bounds flat, 2 interior triangles (6
\* interior indices) and no curve indices.
C17_OneBQuad ==
  TrianglePartitioned =>
    /\ Len(library.b_quads) = 1
    /\ AllFlat
    /\ Len(library.cover_indices.interior_indices) = 6
    /\ library.cover_indices.curve_indices = <<>>

\* C17, amended: for every triangle of three straight segments partition
\* records one B-quad with both bounds flat for each interval between two
\* consecutive x coordinates of its vertices: 1 B-quad when two vertices
\* have the same x and 2 B-quads when the three x differ, with 2 interior
\* triangles (6 interior indices) for each B-quad and no curve indices.
C17_OneBQuadPerInterval ==
  TrianglePartitioned =>
    /\ Len(library.b_quads) = Cardinality(EndpointXs) - 1
    /\ AllFlat
    /\ Len(library.cover_indices.interior_indices) = 6 * Len(library.b_quads)
    /\ library.cover_indices.curve_indices = <<>>

\* a triangle whose vertices have three different x has been partitioned
\* into 2 B-quads
C17_Witness ==
  /\ TrianglePartitioned
  /\ Cardinality(EndpointXs) = 3
  /\ Len(library.b_quads) = 2
  /\ Len(library.cover_indices.interior_indices) = 12

\* ------------------------------------------------------------------------
\* Classification of endpoints and the initial heap (Spec)
\* ------------------------------------------------------------------------
\* endpoint j precedes endpoint i in sweep order
Precedes(j, i) ==
  SweepLess(create_point_from_endpoint(j), create_point_from_endpoint(i))

\* the neighbours of endpoint i that precede it
EarlierNeighbours(i) ==
  (IF Precedes(prev_endpoint_of(i), i) THEN {"prev"} ELSE {})
  \cup (IF Precedes(next_endpoint_of(i), i) THEN {"next"} ELSE {})

\* C18: classify_endpoint(i) is defined for every endpoint and is Max when
\* both cyclic neighbours of i precede it in sweep order (x, then y, then
\* endpoint index), Regular when exactly one does, and Min when neither
\* does, a neighbour that is i itself included.
C18_ClassifiedByNeighbours ==
  \A i \in 0..(Len(endpoints) - 1) :
    classify_endpoint(i) =
      CASE Cardinality(EarlierNeighbours(i)) = 2 -> "Max"
        [] Cardinality(EarlierNeighbours(i)) = 1 -> "Regular"
        [] OTHER -> "Min"

\* init_heap has classified the endpoints of a path that has two endpoints
\* at one position, which only their indices order, and the path has an
\* endpoint of each class
C18_Witness ==
  /\ last.kind = "Partition"
  /\ \E i \in RangeEndpoints :
       /\ next_endpoint_of(i) /= i
       /\ At(endpoints, i).position = At(endpoints, next_endpoint_of(i)).position
       /\ classify_endpoint(i) /= classify_endpoint(next_endpoint_of(i))
  /\ {classify_endpoint(i) : i \in RangeEndpoints} = {"Min", "Regular", "Max"}

\* the events of the Min endpoints of the subpaths of the current call
MinEvents ==
  {create_point_from_endpoint(i) :
     i \in {j \in RangeEndpoints : classify_endpoint(j) = "Min"}}

\* the event is the right endpoint of one of the active edges
EndsActiveEdge(edges, pt) ==
  /\ pt = create_point_from_endpoint(pt.endpoint_index)
  /\ \E k \in 1..Len(edges) : edges[k].right_endpoint_index = pt.endpoint_index

\* C19: the step that enters partition leaves in the heap exactly one event
\* for each Min endpoint of the subpaths of the call and nothing else; any
\* later step that adds an event to the heap is a Min or Regular handler,
\* and the event is the right endpoint of an active edge of the list the
\* handler leaves (the edge it created or advanced).
C19_OnlyMinSeeded ==
  [][/\ last'.kind = "Partition" =>
          /\ heap' = SetToBag(MinEvents')
          /\ \A pt \in MinEvents' : CopiesIn(pt, heap') = 1
     /\ last'.kind /= "Partition" =>
          \A pt \in BagToSet(heap') :
            CopiesIn(pt, heap') > CopiesIn(pt, heap) =>
              /\ Event
              /\ last'.kind \in {"Min", "Regular"}
              /\ EndsActiveEdge(active_edges', pt)]_vars

\* a handler has put the event of a Max endpoint in the heap of a call
\* whose subpaths have endpoints of every class
C19_Witness ==
  /\ pc = "partition"
  /\ last.kind \in {"Min", "Regular"}
  /\ {classify_endpoint(i) : i \in RangeEndpoints} = {"Min", "Regular", "Max"}
  /\ \E pt \in BagToSet(heap) :
       /\ classify_endpoint(pt.endpoint_index) = "Max"
       /\ EndsActiveEdge(active_edges, pt)

\* ------------------------------------------------------------------------
\* Order of dispatch (Spec)
\* ------------------------------------------------------------------------
\* the endpoints that the current call has handled so far
HandledInCall ==
  {j \in 0..(Len(visited_points) - 1) :
     At(visited_points, j) /\ ~At(call.visited_at_entry, j)}

\* C20: within one partition call the endpoints are dispatched to the
\* handlers in strictly increasing sweep order (x, then y, then endpoint
\* index): every endpoint the call has handled before precedes the one a
\* handler is run on, and no step of the loop adds to the heap an event
\* that precedes the event it processes.
C20_DispatchedInSweepOrder ==
  [][Event =>
       /\ \A i \in 0..(Len(endpoints) - 1) :
            Handled(i) => \A j \in HandledInCall : Precedes(j, i)
       /\ \A pt \in BagToSet(heap') :
            CopiesIn(pt, heap') > CopiesIn(pt, heap) =>
              ~SweepLess(pt, HeapPeek(heap))]_vars

\* the call has handled three endpoints or more, and the handlers have
\* left in the heap an event at the x of the last one
C20_Witness ==
  /\ pc = "partition"
  /\ last.kind \in {"Min", "Regular", "Max"}
  /\ Cardinality(HandledInCall) >= 3
  /\ \E pt \in BagToSet(heap) :
       /\ pt.endpoint_index /= last.endpoint_index
       /\ pt.position.x = At(endpoints, last.endpoint_index).position.x

\* ------------------------------------------------------------------------
\* Stabilisation of the active edge list (Spec)
\* ------------------------------------------------------------------------
\* process_next_point is about to run a handler: the top of the heap has
\* not been visited
AtDispatch ==
  AtEvent /\ ~already_visited_point(visited_points, HeapPeek(heap))

\* the partitioner when process_next_point calls
\* sort_active_edge_list_and_emit_self_intersections, and when that returns
BeforeSort ==
  [Self EXCEPT !.visited_points = mark_point_as_visited(@, HeapPeek(heap))]
AfterSort ==
  sort_active_edge_list_and_emit_self_intersections(
    BeforeSort, HeapPeek(heap).endpoint_index)

\* what identifies an active edge while it is in the list: the endpoint it
\* runs to and its direction (emission moves its left vertex)
EdgeIdentity(e) == <<e.right_endpoint_index, e.left_to_right>>

\* the two lists hold the same edges, each as often as the other
SameEdges(before, after) ==
  /\ Len(before) = Len(after)
  /\ \A k \in 1..Len(before) :
       Cardinality({m \in 1..Len(after) :
                      EdgeIdentity(after[m]) = EdgeIdentity(before[k])})
         = Cardinality({m \in 1..Len(before) :
                          EdgeIdentity(before[m]) = EdgeIdentity(before[k])})

\* C21: when sort_active_edge_list_and_emit_self_intersections returns for
\* the event p, any two adjacent active edges have the same right endpoint
\* or the upper one is not below the lower one at x = p.x, and the list
\* holds the edges it held before the call, in some order.
C21_SortedPermutation ==
  AtDispatch =>
    /\ \A k \in 1..(Len(AfterSort.active_edges) - 1) :
         \/ AfterSort.active_edges[k].right_endpoint_index
              = AfterSort.active_edges[k + 1].right_endpoint_index
         \/ RLe(solve_active_edge_y_for_x(AfterSort, HeapPeek(heap).position.x,
                                          AfterSort.active_edges[k]),
                solve_active_edge_y_for_x(AfterSort, HeapPeek(heap).position.x,
                                          AfterSort.active_edges[k + 1]))
    /\ SameEdges(active_edges, AfterSort.active_edges)

\* the sort of the event changes the order of the list
C21_Witness ==
  /\ AtDispatch
  /\ \E k \in 1..Len(active_edges) :
       EdgeIdentity(AfterSort.active_edges[k]) /= EdgeIdentity(active_edges[k])

\* the x of the event
EventX == HeapPeek(heap).position.x

\* the pairs (by the index of the lower edge) that the first pass of the
\* sort finds out of order in the list as the sort receives it
OutOfOrder ==
  {lower \in 1..(Len(active_edges) - 1) :
     ~active_edges_are_ordered(BeforeSort, lower - 1, lower, EventX)}

\* the first of them: the first pair that the sort swaps
FirstOutOfOrder == CHOOSE lower \in OutOfOrder : \A m \in OutOfOrder : lower <= m

\* the crossing point the sort finds for that pair, and the partitioner
\* after the body of the loop
FirstCrossing == crossing_point_for_active_edge(BeforeSort, FirstOutOfOrder - 1, EventX)
AfterFirstSwap == swap_out_of_order(BeforeSort, FirstOutOfOrder, EventX)

\* the x of the left vertex of active edge i of the partitioner
LeftVertexX(self, i) ==
  At(self.library.b_vertex_positions, At(self.active_edges, i).left_vertex_index).x

\* C22: the first pair of adjacent active edges that the sort of an event
\* finds out of order is swapped.  If crossing_point_for_active_edge gives
\* a crossing point, B-quads have been emitted around both edges up to the
\* x of that point before the swap: both edges now start at that x, the
\* B-quads recorded end at that x, and some were recorded unless both edges
\* started at that x already.
\* If it gives none, the swap is all that happened: the library and every
\* edge are as before.
C22_SwapAfterEmission ==
  (AtDispatch /\ OutOfOrder /= {}) =>
    /\ EdgeIdentity(At(AfterFirstSwap.active_edges, FirstOutOfOrder - 1))
         = EdgeIdentity(At(active_edges, FirstOutOfOrder))
    /\ EdgeIdentity(At(AfterFirstSwap.active_edges, FirstOutOfOrder))
         = EdgeIdentity(At(active_edges, FirstOutOfOrder - 1))
    /\ \A i \in 0..(Len(active_edges) - 1) :
         i \notin {FirstOutOfOrder - 1, FirstOutOfOrder} =>
           EdgeIdentity(At(AfterFirstSwap.active_edges, i))
             = EdgeIdentity(At(active_edges, i))
    /\ FirstCrossing.some =>
         /\ (\E i \in {FirstOutOfOrder - 1, FirstOutOfOrder} :
               LeftVertexX(BeforeSort, i) /= FirstCrossing.value.x) =>
              Len(AfterFirstSwap.library.b_quads) > Len(library.b_quads)
         /\ LeftVertexX(AfterFirstSwap, FirstOutOfOrder - 1) = FirstCrossing.value.x
         /\ LeftVertexX(AfterFirstSwap, FirstOutOfOrder) = FirstCrossing.value.x
         /\ \A k \in (Len(library.b_quads) + 1)..Len(AfterFirstSwap.library.b_quads) :
              At(AfterFirstSwap.library.b_vertex_positions,
                 AfterFirstSwap.library.b_quads[k].upper_right_vertex_index).x
                = FirstCrossing.value.x
    /\ ~FirstCrossing.some =>
         /\ AfterFirstSwap.library = library
         /\ AfterFirstSwap.active_edges
              = VecSwap(active_edges, FirstOutOfOrder - 1, FirstOutOfOrder)

\* the sort of the event finds a pair out of order and a crossing point
C22_Witness ==
  /\ AtDispatch
  /\ OutOfOrder /= {}
  /\ FirstCrossing.some
  /\ Len(AfterFirstSwap.library.b_quads) = Len(library.b_quads) + 2

\* ------------------------------------------------------------------------
\* The handlers and the active edge list (Spec)
\* ------------------------------------------------------------------------
\* the step ran process_min_endpoint on endpoint i
MinStep(i) == Handled(i) /\ last'.kind = "Min"

\* the slot process_min_endpoint finds for endpoint i in the sorted list
MinSlot(i) == find_point_between_active_edges(AfterSort, i)

\* prev_vector.cross(next_vector) >= 0.0 for endpoint i
PrevAbove(i) ==
  PCross(PSub(At(endpoints, prev_endpoint_of(i)).position, At(endpoints, i).position),
         PSub(At(endpoints, next_endpoint_of(i)).position, At(endpoints, i).position)).num >= 0

\* the list without the two slots j and j + 1
WithoutPair(edges, j) ==
  SubSeq(edges, 1, j) \o SubSeq(edges, j + 3, Len(edges))

\* the identities of the edges of a list, in order
Identities(edges) == [k \in 1..Len(edges) |-> EdgeIdentity(edges[k])]

\* C23: process_min_endpoint for endpoint p inserts two adjacent active
\* edges at the slot j found for p; both have the same left vertex, which
\* is appended by the handler and lies at the position of p; one runs to
\* prev(p) with left_to_right = false, the other to next(p) with
\* left_to_right = true; the edge to prev(p) is the upper one (slot j)
\* exactly when cross(prev - p, next - p) >= 0; the other edges keep their
\* order around the pair.
C23_MinInsertsPair ==
  [][\A i \in 0..(Len(endpoints) - 1) :
       MinStep(i) =>
         /\ Len(active_edges') = Len(AfterSort.active_edges) + 2
         /\ MinSlot(i) <= Len(AfterSort.active_edges)
         /\ At(active_edges', MinSlot(i)).left_vertex_index
              = At(active_edges', MinSlot(i) + 1).left_vertex_index
         /\ At(active_edges', MinSlot(i)).left_vertex_index
              >= Len(AfterSort.library.b_vertex_positions)
         /\ At(active_edges', MinSlot(i)).left_vertex_index
              < Len(library'.b_vertex_positions)
         /\ At(library'.b_vertex_positions,
               At(active_edges', MinSlot(i)).left_vertex_index)
              = At(endpoints, i).position
         /\ EdgeIdentity(At(active_edges', MinSlot(i)))
              = IF PrevAbove(i) THEN <<prev_endpoint_of(i), FALSE>>
                ELSE <<next_endpoint_of(i), TRUE>>
         /\ EdgeIdentity(At(active_edges', MinSlot(i) + 1))
              = IF PrevAbove(i) THEN <<next_endpoint_of(i), TRUE>>
                ELSE <<prev_endpoint_of(i), FALSE>>
         /\ Identities(WithoutPair(active_edges', MinSlot(i)))
              = Identities(AfterSort.active_edges)]_vars

\* a Min event has put its pair between two edges that were active, with
\* the edge to the next endpoint above
C23_Witness ==
  /\ last.kind = "Min"
  /\ pc = "partition"
  /\ \E j \in 1..(Len(active_edges) - 2) :
       /\ At(active_edges, j).left_vertex_index
            = At(active_edges, j + 1).left_vertex_index
       /\ At(active_edges, j).right_endpoint_index
            = next_endpoint_of(last.endpoint_index)
       /\ At(active_edges, j).left_to_right
       /\ At(active_edges, j + 1).right_endpoint_index
            = prev_endpoint_of(last.endpoint_index)
       /\ ~At(active_edges, j + 1).left_to_right

\* the step ran process_regular_endpoint on endpoint i
RegularStep(i) == Handled(i) /\ last'.kind = "Regular"

\* the active edge the sorted list matches to endpoint i
MatchedEdge(i) == find_right_point_in_active_edge_list(AfterSort, i).indices[1]

\* C24: process_regular_endpoint for endpoint p and its matched edge moves
\* the right endpoint of that edge to next(p) when the edge is
\* left_to_right and to prev(p) otherwise, keeps its left_to_right, keeps
\* every other active edge at its index with its right endpoint (and
\* direction), and replaces the top of the heap, which is the event for p,
\* by the event for the new right endpoint.
C24_RegularAdvances ==
  [][\A i \in 0..(Len(endpoints) - 1) :
       RegularStep(i) =>
         /\ Len(active_edges') = Len(AfterSort.active_edges)
         /\ At(AfterSort.active_edges, MatchedEdge(i)).right_endpoint_index = i
         /\ At(active_edges', MatchedEdge(i)).right_endpoint_index
              = IF At(AfterSort.active_edges, MatchedEdge(i)).left_to_right
                THEN next_endpoint_of(i) ELSE prev_endpoint_of(i)
         /\ At(active_edges', MatchedEdge(i)).left_to_right
              = At(AfterSort.active_edges, MatchedEdge(i)).left_to_right
         /\ \A m \in 0..(Len(active_edges') - 1) :
              m /= MatchedEdge(i) =>
                EdgeIdentity(At(active_edges', m))
                  = EdgeIdentity(At(AfterSort.active_edges, m))
         /\ HeapPeek(heap).endpoint_index = i
         /\ heap' = (heap (-) SetToBag({HeapPeek(heap)}))
                      (+) SetToBag({create_point_from_endpoint(
                            At(active_edges', MatchedEdge(i)).right_endpoint_index)})]_vars

\* a Regular event has advanced a right-to-left edge, next to other edges,
\* to the previous endpoint, whose event is in the heap
C24_Witness ==
  /\ last.kind = "Regular"
  /\ pc = "partition"
  /\ Len(active_edges) >= 4
  /\ \E m \in 0..(Len(active_edges) - 1) :
       /\ ~At(active_edges, m).left_to_right
       /\ At(active_edges, m).right_endpoint_index
            = prev_endpoint_of(last.endpoint_index)
       /\ BagIn(create_point_from_endpoint(prev_endpoint_of(last.endpoint_index)), heap)

\* the step ran process_max_endpoint on endpoint i
MaxStep(i) == Handled(i) /\ last'.kind = "Max"

\* the edges of a list that do not end at endpoint i, in order
NotEndingAt(edges, i) ==
  SelectSeq(edges, LAMBDA e : e.right_endpoint_index /= i)

\* the length of the list after emit_b_quads_around_active_edge for active
\* edge k at the x of the event on top of the heap
LenAfterEmission(k) ==
  Len(emit_b_quads_around_active_edge(Self, k, HeapPeek(heap).position.x)
        .self.active_edges)

\* C25: in the event loop of partition, the length of the active edge
\* list changes only in a Min or a Max handler.  A Min event inserts exactly two edges at adjacent positions; a
\* Regular event keeps the length; a Max event removes exactly the two
\* edges whose right_endpoint_index is the endpoint of the event and keeps
\* the others in order.  The sort of an event and a call of
\* emit_b_quads_around_active_edge keep the length.
C25_LengthChangesInHandlers ==
  [][/\ (Event /\ Len(active_edges') /= Len(active_edges)) =>
          last'.kind \in {"Min", "Max"}
     /\ AtDispatch => Len(AfterSort.active_edges) = Len(active_edges)
     /\ AtEvent => \A k \in 0..Len(active_edges) :
                     LenAfterEmission(k) = Len(active_edges)
     /\ \A i \in 0..(Len(endpoints) - 1) :
          /\ MinStep(i) =>
               /\ Len(active_edges') = Len(active_edges) + 2
               /\ \E j \in 0..Len(active_edges) :
                    Identities(WithoutPair(active_edges', j))
                      = Identities(AfterSort.active_edges)
          /\ RegularStep(i) => Len(active_edges') = Len(active_edges)
          /\ MaxStep(i) =>
               /\ Len(active_edges') = Len(active_edges) - 2
               /\ Len(NotEndingAt(AfterSort.active_edges, i))
                    = Len(active_edges) - 2
               /\ Identities(active_edges')
                    = Identities(NotEndingAt(AfterSort.active_edges, i))]_vars

\* a Max event has removed its two edges from between two others, which
\* remain
C25_Witness ==
  /\ last.kind = "Max"
  /\ pc = "partition"
  /\ Len(active_edges) = 2
  /\ \E k \in 0..1 : At(active_edges, k).right_endpoint_index /= last.endpoint_index

\* active edge e refers to B-vertices that the library holds
RefersToVertices(e) ==
  /\ e.left_vertex_index < Len(library.b_vertex_positions)
  /\ \/ e.control_point_vertex_index = U32_MAX
     \/ e.control_point_vertex_index < Len(library.b_vertex_positions)

\* C26: at every event boundary, the left_vertex_index of every active
\* edge is less than the length of b_vertex_positions, and its
\* control_point_vertex_index is u32::MAX or less than that length.
C26_EdgesReferToVertices ==
  pc = "partition" =>
    \A k \in 1..Len(active_edges) : RefersToVertices(active_edges[k])

\* an event boundary with a curved active edge and a straight one, after
\* a Regular event
C26_Witness ==
  /\ pc = "partition"
  /\ last.kind = "Regular"
  /\ \E k \in 1..Len(active_edges) :
       /\ active_edges[k].control_point_vertex_index /= U32_MAX
       /\ active_edges[k].control_point_vertex_index
            > active_edges[k].left_vertex_index
  /\ \E k \in 1..Len(active_edges) :
       active_edges[k].control_point_vertex_index = U32_MAX

\* ------------------------------------------------------------------------
\* emit_b_quads_around_active_edge (Spec)
\* ------------------------------------------------------------------------
\* the left vertex of active edge k of the partitioner is at x, within
\* epsilon
LeftVertexAt(self, k, x) ==
  ~RGeEps(RAbs(RSub(x, LeftVertexX(self, k))))

\* the cases in which the call for active edge k at x is to do nothing
NothingToEmit(self, k, x) ==
  \/ k >= Len(self.active_edges)
  \/ bounding_active_edges_for_fill(self, k)[1]
       = bounding_active_edges_for_fill(self, k)[2]
  \/ LeftVertexAt(self, bounding_active_edges_for_fill(self, k)[1], x)
  \/ LeftVertexAt(self, bounding_active_edges_for_fill(self, k)[2], x)

\* the call leaves the library and the active edges of the partitioner as
\* they are
EmissionLeaves(self, k, x) ==
  /\ emit_b_quads_around_active_edge(self, k, x).self.library = self.library
  /\ emit_b_quads_around_active_edge(self, k, x).self.active_edges
       = self.active_edges

\* the partitioner without the last edge of its list: the lists of a
\* partition of closed subpaths are balanced, so that the fill bounds of two
\* of their edges never coincide; in a list cut short they do
WithoutLastEdge(self) ==
  [self EXCEPT !.active_edges = SubSeq(@, 1, Len(@) - 1)]

\* C27: emit_b_quads_around_active_edge(i, right_x) leaves every buffer of
\* the library and every active edge as they are whenever i is past the end
\* of the list, the fill bounds have upper = lower, or the left vertex of
\* one of the two bounding edges is at right_x within epsilon.  The call is
\* made as the handlers make it, on the sorted list of every event at the x
\* of the event, and on that list cut short by one edge.
C27_NothingEmitted ==
  AtDispatch =>
    /\ \A k \in 0..Len(active_edges) :
         NothingToEmit(AfterSort, k, EventX) =>
           EmissionLeaves(AfterSort, k, EventX)
    /\ Len(active_edges) > 0 =>
         \A k \in 0..Len(active_edges) :
           NothingToEmit(WithoutLastEdge(AfterSort), k, EventX) =>
             EmissionLeaves(WithoutLastEdge(AfterSort), k, EventX)

\* an event at the x at which the upper bounding edge of a fill starts,
\* with B-quads in the library; the last edge of the list cut short bounds
\* no fill
C27_Witness ==
  /\ AtDispatch
  /\ Len(library.b_quads) > 0
  /\ \E k \in 0..(Len(active_edges) - 1) :
       /\ bounding_active_edges_for_fill(AfterSort, k)[1]
            /= bounding_active_edges_for_fill(AfterSort, k)[2]
       /\ LeftVertexAt(AfterSort, bounding_active_edges_for_fill(AfterSort, k)[1], EventX)
  /\ \E k \in 0..(Len(active_edges) - 2) :
       /\ bounding_active_edges_for_fill(WithoutLastEdge(AfterSort), k)[1]
            = bounding_active_edges_for_fill(WithoutLastEdge(AfterSort), k)[2]
       /\ ~LeftVertexAt(AfterSort, k, EventX)

\* the call for active edge k of the partitioner at x passes the three
\* returns of emit_b_quads_around_active_edge
Emits(self, k, x) ==
  /\ k < Len(self.active_edges)
  /\ bounding_active_edges_for_fill(self, k)[1]
       /= bounding_active_edges_for_fill(self, k)[2]
  /\ should_subdivide_active_edge_at(
       self, bounding_active_edges_for_fill(self, k)[1], x)
  /\ should_subdivide_active_edge_at(
       self, bounding_active_edges_for_fill(self, k)[2], x)

\* the active edges strictly between the fill bounds of active edge k
InsideEdges(self, k) ==
  (bounding_active_edges_for_fill(self, k)[1] + 1)
    ..(bounding_active_edges_for_fill(self, k)[2] - 1)

\* the active edges after the call for active edge k at x
EdgesAfterEmission(self, k, x) ==
  emit_b_quads_around_active_edge(self, k, x).self.active_edges

\* the call has moved the left vertex of active edge m to a vertex it
\* appended at x, and toggled the parity of the edge once
SubdividedAndToggled(self, k, m, x) ==
  /\ At(EdgesAfterEmission(self, k, x), m).left_vertex_index
       >= Len(self.library.b_vertex_positions)
  /\ LeftVertexX(emit_b_quads_around_active_edge(self, k, x).self, m) = x
  /\ At(EdgesAfterEmission(self, k, x), m).parity
       = ~At(self.active_edges, m).parity

\* the calls of a handler: on the sorted list of the event, at its x
HandlerCalls ==
  IF AtDispatch
  THEN {<<AfterSort, k, EventX>> : k \in 0..(Len(active_edges) - 1)}
  ELSE {}

\* the first calls of the sort of the event: around the two edges of the
\* first pair out of order, at the x of their crossing point
SortCalls ==
  IF AtDispatch /\ OutOfOrder /= {} /\ FirstCrossing.some
  THEN {<<BeforeSort, FirstOutOfOrder - 1, FirstCrossing.value.x>>,
        <<emit_b_quads_around_active_edge(
            BeforeSort, FirstOutOfOrder - 1, FirstCrossing.value.x).self,
          FirstOutOfOrder, FirstCrossing.value.x>>}
  ELSE {}

\* C28: when emit_b_quads_around_active_edge emits for the bounds (upper,
\* lower) at right_x, every active edge strictly between upper and lower is
\* subdivided at right_x (its left vertex becomes a vertex appended by the
\* call, at x = right_x) and has its parity toggled once.  The calls are
\* those of the handlers and the first two of the sort of every event.
C28_InsideAllSubdivided ==
  \A c \in HandlerCalls \cup SortCalls :
    Emits(c[1], c[2], c[3]) =>
      \A m \in InsideEdges(c[1], c[2]) :
        /\ should_subdivide_active_edge_at(c[1], m, c[3])
        /\ SubdividedAndToggled(c[1], c[2], m, c[3])

\* a call that emits around two edges inside the fill, which it subdivides
C28_Witness ==
  \E c \in HandlerCalls :
    /\ Emits(c[1], c[2], c[3])
    /\ Cardinality(InsideEdges(c[1], c[2])) = 2
    /\ \A m \in InsideEdges(c[1], c[2]) :
         /\ should_subdivide_active_edge_at(c[1], m, c[3])
         /\ SubdividedAndToggled(c[1], c[2], m, c[3])

\* ------------------------------------------------------------------------
\* The triangles of a B-quad (LeafSpec)
\* ------------------------------------------------------------------------
\* number of the two sides that have the shape
SidesOfShape(upper_shape, lower_shape, sh) ==
  (IF upper_shape = sh THEN 1 ELSE 0) + (IF lower_shape = sh THEN 1 ELSE 0)

\* the six vertex indices of a B-quad
BQuadVertices(q) ==
  {q.upper_left_vertex_index, q.upper_control_point_vertex_index,
   q.upper_right_vertex_index, q.lower_left_vertex_index,
   q.lower_control_point_vertex_index, q.lower_right_vertex_index}

\* the elements a sequence has after the first n
Appended(before, after) ==
  {after[k] : k \in (Len(before) + 1)..Len(after)}

\* C29: a leaf emission of emit_b_quads appends 2 interior triangles when
\* neither side is Concave, 3 when exactly one side is, 4 when both are;
\* one curve triangle for each side that is not Flat; and then records
\* exactly one B-quad {UL, UC, UM, LL, LC, LM} of the two subdivisions, whose
\* UC (LC) is u32::MAX exactly when the upper (lower) side is Flat.  The
\* triangles are made of vertices of that B-quad, never of u32::MAX.
C29_TrianglesOfShapes ==
  [][last'.kind = "Leaf" =>
       /\ IsPrefix(library.cover_indices.interior_indices,
                   library'.cover_indices.interior_indices)
       /\ Len(library'.cover_indices.interior_indices)
            = Len(library.cover_indices.interior_indices)
              + 3 * (2 + SidesOfShape(last'.upper_shape, last'.lower_shape,
                                      "Concave"))
       /\ IsPrefix(library.cover_indices.curve_indices,
                   library'.cover_indices.curve_indices)
       /\ Len(library'.cover_indices.curve_indices)
            = Len(library.cover_indices.curve_indices)
              + 3 * (2 - SidesOfShape(last'.upper_shape, last'.lower_shape,
                                      "Flat"))
       /\ library'.b_quads
            = Append(library.b_quads,
                     BQuadNew(last'.upper_subdivision.left_curve_left,
                              last'.upper_subdivision.left_curve_control_point,
                              last'.upper_subdivision.middle_point,
                              last'.lower_subdivision.left_curve_left,
                              last'.lower_subdivision.left_curve_control_point,
                              last'.lower_subdivision.middle_point))
       /\ (library'.b_quads[Len(library'.b_quads)].upper_control_point_vertex_index
             = U32_MAX) <=> (last'.upper_shape = "Flat")
       /\ (library'.b_quads[Len(library'.b_quads)].lower_control_point_vertex_index
             = U32_MAX) <=> (last'.lower_shape = "Flat")
       /\ Appended(library.cover_indices.interior_indices,
                   library'.cover_indices.interior_indices)
            \cup Appended(library.cover_indices.curve_indices,
                          library'.cover_indices.curve_indices)
            \subseteq BQuadVertices(library'.b_quads[Len(library'.b_quads)])
                        \ {U32_MAX}]_vars

\* a B-quad with a concave upper side and a flat lower side after one with
\* two concave sides: 4 + 3 interior triangles and 2 + 1 curve triangles
C29_Witness ==
  /\ last.kind = "Leaf"
  /\ last.upper_shape = "Concave"
  /\ last.lower_shape = "Flat"
  /\ Len(library.b_quads) = 2
  /\ library.b_quads[1].lower_control_point_vertex_index /= U32_MAX
  /\ Len(library.cover_indices.interior_indices) = 21
  /\ Len(library.cover_indices.curve_indices) = 9

\* ------------------------------------------------------------------------
\* Endpoint kinds (Spec)
\* ------------------------------------------------------------------------
\* the Loop-Blinn kind of B-vertex v
KindOf(v) == At(library.b_vertex_loop_blinn_data, v).kind

\* the two B-vertices are one Endpoint0 and one Endpoint1
Alternate(left, right) ==
  {KindOf(left), KindOf(right)} = {"Endpoint0", "Endpoint1"}

\* C30: in every recorded B-quad, the Loop-Blinn kinds of UL and UM are
\* the two different endpoint kinds, one Endpoint0 and one Endpoint1, and
\* so are those of LL and LM, after every sequence of events.
C30_EndpointKindsAlternate ==
  \A k \in 1..Len(library.b_quads) :
    /\ Alternate(library.b_quads[k].upper_left_vertex_index,
                 library.b_quads[k].upper_right_vertex_index)
    /\ Alternate(library.b_quads[k].lower_left_vertex_index,
                 library.b_quads[k].lower_right_vertex_index)

\* four B-quads or more, two of them one after the other along an upper
\* edge and joined at an Endpoint1 vertex
C30_Witness ==
  /\ Len(library.b_quads) >= 4
  /\ \E k \in 1..Len(library.b_quads) : \E m \in 1..Len(library.b_quads) :
       /\ library.b_quads[k].upper_right_vertex_index
            = library.b_quads[m].upper_left_vertex_index
       /\ KindOf(library.b_quads[k].upper_right_vertex_index) = "Endpoint1"

\* ------------------------------------------------------------------------
\* The B-quads of one call of emit_b_quads_around_active_edge (Spec)
\* ------------------------------------------------------------------------
\* the B-quads the library holds after the first n
BQuadsAfter(lib, n) == SubSeq(lib.b_quads, n + 1, Len(lib.b_quads))

\* B-quad right starts on both sides where B-quad left ends
Joined(left, right) ==
  /\ right.upper_left_vertex_index = left.upper_right_vertex_index
  /\ right.lower_left_vertex_index = left.lower_right_vertex_index

\* the B-quads q run from the left vertices of the edges upper and lower
\* of the list before to their left vertices in the list after
Chain(q, before, after, upper, lower) ==
  /\ Len(q) >= 1
  /\ q[1].upper_left_vertex_index = At(before, upper).left_vertex_index
  /\ q[1].lower_left_vertex_index = At(before, lower).left_vertex_index
  /\ \A n \in 2..Len(q) : Joined(q[n - 1], q[n])
  /\ q[Len(q)].upper_right_vertex_index = At(after, upper).left_vertex_index
  /\ q[Len(q)].lower_right_vertex_index = At(after, lower).left_vertex_index

\* the call c = <<self, k, x>> records a chain between its bounds
RecordsChain(c) ==
  \A after \in {emit_b_quads_around_active_edge(c[1], c[2], c[3]).self} :
    Chain(BQuadsAfter(after.library, Len(c[1].library.b_quads)),
          c[1].active_edges, after.active_edges,
          bounding_active_edges_for_fill(c[1], c[2])[1],
          bounding_active_edges_for_fill(c[1], c[2])[2])

\* C31: the B-quads recorded by one call of
\* emit_b_quads_around_active_edge that emits form a chain by vertex
\* index: UL and LL of the first are the left vertices the two bounding
\* edges had before the call, UL and LL of each later one are UM and LM of
\* the one before it, and UM and LM of the last are the left vertices of
\* the bounding edges after the call.
C31_WatertightChain ==
  \A c \in HandlerCalls \cup SortCalls :
    Emits(c[1], c[2], c[3]) => RecordsChain(c)

\* a call of a handler that records a chain of four B-quads or more
C31_Witness ==
  \E c \in HandlerCalls :
    /\ Emits(c[1], c[2], c[3])
    /\ \E after \in {emit_b_quads_around_active_edge(c[1], c[2], c[3]).self} :
         Len(after.library.b_quads) >= Len(c[1].library.b_quads) + 4

\* ------------------------------------------------------------------------
\* The endpoints of a subpath (Spec)
\* ------------------------------------------------------------------------
\* the endpoint indices of subpath k
SubpathRange(k) ==
  At(subpaths, k).first_endpoint_index..(At(subpaths, k).last_endpoint_index - 1)

\* C32: for every endpoint i of a subpath with range [first, last),
\* prev_endpoint_of(i) and next_endpoint_of(i) lie in [first, last),
\* next(prev(i)) = i = prev(next(i)), prev(first) = last - 1 and
\* next(last - 1) = first.
C32_InverseCyclicSteps ==
  \A k \in 0..(Len(subpaths) - 1) :
    /\ \A i \in SubpathRange(k) :
         /\ prev_endpoint_of(i) \in SubpathRange(k)
         /\ next_endpoint_of(i) \in SubpathRange(k)
         /\ next_endpoint_of(prev_endpoint_of(i)) = i
         /\ prev_endpoint_of(next_endpoint_of(i)) = i
    /\ SubpathRange(k) /= {} =>
         /\ prev_endpoint_of(At(subpaths, k).first_endpoint_index)
              = At(subpaths, k).last_endpoint_index - 1
         /\ next_endpoint_of(At(subpaths, k).last_endpoint_index - 1)
              = At(subpaths, k).first_endpoint_index

\* two subpaths of three endpoints: the second wraps from 5 to 3
C32_Witness ==
  /\ Len(subpaths) = 2
  /\ At(subpaths, 1).first_endpoint_index = 3
  /\ At(subpaths, 1).last_endpoint_index = 6
  /\ next_endpoint_of(5) = 3
  /\ prev_endpoint_of(3) = 5
  /\ next_endpoint_of(2) = 0

\* ------------------------------------------------------------------------
\* Winding of the active edge list (Spec)
\* ------------------------------------------------------------------------
\* the sum of the winding numbers of the edges of a list
TotalWinding(edges) ==
  Cardinality({k \in 1..Len(edges) : winding_number(edges[k]) = 1})
  - Cardinality({k \in 1..Len(edges) : winding_number(edges[k]) = -1})

\* the directions of the edges of a list that end at endpoint i
DirectionsEndingAt(edges, i) ==
  {edges[k].left_to_right :
     k \in {m \in 1..Len(edges) : edges[m].right_endpoint_index = i}}

\* C33: at every event boundary of a partition the winding numbers of the
\* active edges (+1 for left_to_right, -1 otherwise) sum to zero; the two
\* edges a Min event inserts have opposite directions, a Regular event
\* keeps the direction of its edge, and the two edges a Max event removes
\* have opposite directions.
C33_WindingSumsToZero ==
  [][/\ pc' = "partition" => TotalWinding(active_edges') = 0
     /\ \A i \in 0..(Len(endpoints) - 1) :
          /\ MinStep(i) =>
               At(active_edges', MinSlot(i)).left_to_right
                 /= At(active_edges', MinSlot(i) + 1).left_to_right
          /\ RegularStep(i) =>
               At(active_edges', MatchedEdge(i)).left_to_right
                 = At(AfterSort.active_edges, MatchedEdge(i)).left_to_right
          /\ MaxStep(i) =>
               /\ DirectionsEndingAt(AfterSort.active_edges, i) = BOOLEAN
               /\ Len(NotEndingAt(AfterSort.active_edges, i))
                    = Len(AfterSort.active_edges) - 2]_vars

\* a Max event has removed two of four edges and left one of each
\* direction, the upper one left to right
C33_Witness ==
  /\ pc = "partition"
  /\ last.kind = "Max"
  /\ Len(active_edges) = 2
  /\ TotalWinding(active_edges) = 0
  /\ At(active_edges, 0).left_to_right

\* ------------------------------------------------------------------------
\* The dispatch of an event and the class of its endpoint (Spec)
\* ------------------------------------------------------------------------
\* the endpoint process_next_point is about to dispatch
DispatchedEndpoint == HeapPeek(heap).endpoint_index

\* the count of find_right_point_in_active_edge_list for that endpoint on
\* the sorted list
MatchingCount ==
  find_right_point_in_active_edge_list(AfterSort, DispatchedEndpoint).count

\* C34: for every endpoint dispatched during a partition, the number k of
\* active edges whose right_endpoint_index is the endpoint, after the sort
\* of the event, agrees with classify_endpoint: k = 0 exactly when the
\* endpoint is classified Min, k = 1 exactly when Regular, k = 2 exactly
\* when Max.
C34_CountAgreesWithClass ==
  AtDispatch =>
    /\ MatchingCount = 0 <=> classify_endpoint(DispatchedEndpoint) = "Min"
    /\ MatchingCount = 1 <=> classify_endpoint(DispatchedEndpoint) = "Regular"
    /\ MatchingCount = 2 <=> classify_endpoint(DispatchedEndpoint) = "Max"

\* a Max endpoint about to be dispatched with its two edges in a list of
\* four
C34_Witness ==
  /\ AtDispatch
  /\ Len(active_edges) = 4
  /\ MatchingCount = 2
  /\ classify_endpoint(DispatchedEndpoint) = "Max"

\* ------------------------------------------------------------------------
\* The right endpoints of the active edges (Spec, FairSpec)
\* ------------------------------------------------------------------------
\* every subpath of the current call has two endpoints or more
TwoEndpointsOrMore ==
  \A k \in call.first_subpath_index..(call.last_subpath_index - 1) :
    At(subpaths, k).last_endpoint_index - At(subpaths, k).first_endpoint_index >= 2

\* the right endpoint of active edge e has not been visited and its event
\* is in the heap
Awaited(e) ==
  /\ ~already_visited_point(visited_points,
                            create_point_from_endpoint(e.right_endpoint_index))
  /\ BagIn(create_point_from_endpoint(e.right_endpoint_index), heap)

\* at an event boundary of such a call every active edge is awaited
AllAwaited ==
  (pc = "partition" /\ TwoEndpointsOrMore) =>
    \A k \in 1..Len(active_edges) : Awaited(active_edges[k])

\* the largest endpoint index of the inputs
MaxEndpoint == 5

\* an active edge ends at endpoint r
EndsAt(r) ==
  \E k \in 1..Len(active_edges) : active_edges[k].right_endpoint_index = r

\* C35: at every event boundary of a partition in which every subpath has
\* at least two endpoints, the right endpoint of every active edge has not
\* been visited and its event is in the heap; and every active edge is
\* eventually advanced or removed: an endpoint at which an active edge ends
\* is visited later, and no active edge ends at it any more.
C35_EdgesAwaitTheirEvent ==
  /\ []AllAwaited
  /\ \A r \in 0..MaxEndpoint :
       (pc = "partition" /\ TwoEndpointsOrMore /\ EndsAt(r)) ~>
         (r < Len(visited_points) /\ At(visited_points, r) /\ ~EndsAt(r))

\* four active edges that end at three endpoints, none of them visited
C35_Witness ==
  /\ pc = "partition"
  /\ TwoEndpointsOrMore
  /\ Len(active_edges) = 4
  /\ Cardinality({active_edges[k].right_endpoint_index :
                    k \in 1..Len(active_edges)}) = 3
  /\ \A k \in 1..Len(active_edges) : Awaited(active_edges[k])

\* ------------------------------------------------------------------------
\* The return of partition (Spec)
\* ------------------------------------------------------------------------
\* partition has just returned
Returned == pc = "idle" /\ last.kind = "Return"

\* C36: when partition returns after processing subpaths that each have at
\* least two endpoints, the active edge list is empty.
C36_EmptyAtReturn ==
  (Returned /\ TwoEndpointsOrMore) => active_edges = <<>>

\* a call over two subpaths of three endpoints has returned, with B-quads
\* recorded and every endpoint visited in the call
C36_Witness ==
  /\ Returned
  /\ TwoEndpointsOrMore
  /\ call.last_subpath_index - call.first_subpath_index = 2
  /\ Len(library.b_quads) >= 4
  /\ active_edges = <<>>
  /\ \A i \in RangeEndpoints :
       At(visited_points, i) /\ ~At(call.visited_at_entry, i)

\* ------------------------------------------------------------------------
\* A second call of partition (Spec)
\* ------------------------------------------------------------------------
\* the step starts a call of partition
PartitionStarts == pc = "idle" /\ pc' = "partition"

\* the step starts the second call, over the range of the first
RepeatStarts ==
  /\ PartitionStarts
  /\ calls = 1
  /\ call'.first_subpath_index = call.first_subpath_index
  /\ call'.last_subpath_index = call.last_subpath_index

\* every endpoint of the range of the current call was visited when the
\* call began
AllVisitedAtEntry ==
  \A i \in RangeEndpoints : At(call.visited_at_entry, i)

\* the ranges start where they end
EmptyRanges(r) ==
  /\ r.b_quads[1] = r.b_quads[2]
  /\ r.b_vertex_positions[1] = r.b_vertex_positions[2]
  /\ r.cover_interior_indices[1] = r.cover_interior_indices[2]
  /\ r.cover_curve_indices[1] = r.cover_curve_indices[2]

\* C37: init_with_raw_data clears the visited bits and partition leaves
\* them as they are when it starts; so the second call of partition over
\* the range of the first, without init_with_raw_data in between, begins
\* with every endpoint of the range visited, dispatches no endpoint (each
\* iteration pops a visited point), appends nothing to the library and
\* returns ranges whose start is their end.
C37_SecondCallDoesNothing ==
  [][/\ PartitionStarts => visited_points' = visited_points
     /\ last'.kind = "InitWithRawData" =>
          \A i \in 1..Len(visited_points') : ~visited_points'[i]
     /\ RepeatStarts =>
          \A i \in RangeEndpoints : At(call'.visited_at_entry, i)
     /\ (pc = "partition" /\ AllVisitedAtEntry) =>
          /\ library' = library
          /\ active_edges' = active_edges
          /\ Event => last'.kind = "Skip"
          /\ pc' = "idle" => EmptyRanges(ranges'[Len(ranges')])]_vars

\* the second call over the only subpath has returned empty ranges after
\* popping stale points; the first call recorded B-quads
C37_Witness ==
  /\ Returned
  /\ calls = 2
  /\ Len(subpaths) = 1
  /\ iterations > 0
  /\ AllVisitedAtEntry
  /\ Len(ranges) = 2
  /\ EmptyRanges(ranges[2])
  /\ ranges[1].b_quads[2] > ranges[1].b_quads[1]

\* ------------------------------------------------------------------------
\* Repeated calls of emit_b_quads_around_active_edge (Spec)
\* ------------------------------------------------------------------------
\* the two active edges the sorted list matches to the dispatched endpoint
MatchedPair ==
  find_right_point_in_active_edge_list(AfterSort, DispatchedEndpoint).indices

\* the two matched edges of a Max event are each other's fill bounds
BoundEachOther ==
  /\ MatchingCount = 2
  /\ bounding_active_edges_for_fill(AfterSort, MatchedPair[1]) = MatchedPair
  /\ bounding_active_edges_for_fill(AfterSort, MatchedPair[2]) = MatchedPair

\* C38: a second call of emit_b_quads_around_active_edge with the same
\* (i, right_x), made right after the first, leaves the library and every
\* active edge as the first call left them; and when the two matched edges
\* of a Max event are each other's fill bounds, the second call of
\* process_max_endpoint (around the lower edge) adds nothing to what the
\* first (around the upper edge) recorded.
C38_EmissionIdempotent ==
  /\ \A c \in HandlerCalls \cup SortCalls :
       \A after \in {emit_b_quads_around_active_edge(c[1], c[2], c[3]).self} :
         EmissionLeaves(after, c[2], c[3])
  /\ (AtDispatch /\ BoundEachOther) =>
       \A after \in {emit_b_quads_around_active_edge(
                        AfterSort, MatchedPair[1], EventX).self} :
         EmissionLeaves(after, MatchedPair[2], EventX)

\* a Max event whose two edges bound each other and whose first call
\* emits
C38_Witness ==
  /\ AtDispatch
  /\ BoundEachOther
  /\ Emits(AfterSort, MatchedPair[1], EventX)
  /\ Len(active_edges) = 4

\* ------------------------------------------------------------------------
\* Range of the fill bounds (EdgeListSpec)
\* ------------------------------------------------------------------------
\* the last step applied bounding_active_edges_for_fill to an index below
\* the length of the list
BoundsTaken ==
  /\ last.kind = "BoundingActiveEdgesForFill"
  /\ last.active_edge_index < Len(active_edges)

\* C39: for every active-edge list, every index i below its length and
\* both fill rules, bounding_active_edges_for_fill(i) returns (upper, lower)
\* with 0 <= upper <= i <= lower < length of the list.
C39_BoundsContainIndex ==
  BoundsTaken =>
    /\ 0 <= last.result[1]
    /\ last.result[1] <= last.active_edge_index
    /\ last.active_edge_index <= last.result[2]
    /\ last.result[2] < Len(active_edges)

\* a winding interval that reaches above and below the edge
C39_Witness ==
  /\ BoundsTaken
  /\ fill_rule = "Winding"
  /\ last.result[1] < last.active_edge_index
  /\ last.active_edge_index < last.result[2]

\* ------------------------------------------------------------------------
\* Hull test of emit_b_quads on a flat edge (Spec)
\* ------------------------------------------------------------------------
\* what emit_b_quads_around_active_edge(k, x) hands to emit_b_quads: the
\* partitioner after the subdivision of the upper edge, of the edges inside
\* and of the lower edge, the two indices and the two subdivisions
EmissionArgumentsBelow(self, k, x, upper_curve) ==
  CHOOSE args \in
    {[self |-> lower_curve.self,
      upper_active_edge_index |-> bounding_active_edges_for_fill(self, k)[1],
      lower_active_edge_index |-> bounding_active_edges_for_fill(self, k)[2],
      upper_subdivision |-> upper_curve.sub,
      lower_subdivision |-> lower_curve.sub] :
       lower_curve \in
         {subdivide_active_edge_at(
            SubdivideInside(upper_curve.self,
                            bounding_active_edges_for_fill(self, k)[1] + 1,
                            bounding_active_edges_for_fill(self, k)[2], x),
            bounding_active_edges_for_fill(self, k)[2], x, "Lower")}} : TRUE

EmissionArguments(self, k, x) ==
  CHOOSE args \in
    {EmissionArgumentsBelow(self, k, x, upper_curve) :
       upper_curve \in
         {subdivide_active_edge_at(
            self, bounding_active_edges_for_fill(self, k)[1], x, "Upper")}} :
    TRUE

UpperShape(args) ==
  shape(args.upper_subdivision, args.self.library.b_vertex_loop_blinn_data)

LowerShape(args) ==
  shape(args.lower_subdivision, args.self.library.b_vertex_loop_blinn_data)

\* the line from the left vertex of a subdivision to its middle point
ChordOf(args, sub) ==
  Line(At(args.self.library.b_vertex_positions, sub.left_curve_left),
       At(args.self.library.b_vertex_positions, sub.middle_point))

ControlPointOf(args, sub) ==
  At(args.self.library.b_vertex_positions, sub.left_curve_control_point)

\* one edge is Flat, the other is Concave and its control point lies
\* beyond the flat edge
ConcavePastFlat(args) ==
  \/ /\ UpperShape(args) = "Concave"
     /\ LowerShape(args) = "Flat"
     /\ LineSideGtEps(ChordOf(args, args.lower_subdivision),
                      ControlPointOf(args, args.upper_subdivision))
  \/ /\ UpperShape(args) = "Flat"
     /\ LowerShape(args) = "Concave"
     /\ LineSideLtNegEps(ChordOf(args, args.upper_subdivision),
                         ControlPointOf(args, args.lower_subdivision))

\* emit_b_quads(.., 0) on these arguments records one B-quad and appends
\* no vertex
OneBQuadNoVertex(args) ==
  \A after \in {emit_b_quads(args.self, args.upper_active_edge_index,
                             args.lower_active_edge_index,
                             args.upper_subdivision, args.lower_subdivision,
                             0)} :
    /\ Len(after.library.b_quads) = Len(args.self.library.b_quads) + 1
    /\ after.library.b_vertex_positions = args.self.library.b_vertex_positions
    /\ Len(after.library.b_vertex_loop_blinn_data)
         = Len(args.self.library.b_vertex_loop_blinn_data)

\* C40: whenever at least one of the two subdivisions handed to
\* emit_b_quads is Flat, neither arm of the hull test is taken (so neither
\* subdivide_active_edge_again_at_t nor _at_x is called), the call records
\* exactly one B-quad and appends no vertex, whatever the shape of the
\* other edge.
C40_FlatEdgeNeverSubdividedAgain ==
  \A c \in HandlerCalls \cup SortCalls :
    Emits(c[1], c[2], c[3]) =>
      \A args \in {EmissionArguments(c[1], c[2], c[3])} :
        (UpperShape(args) = "Flat" \/ LowerShape(args) = "Flat") =>
          /\ ~upper_curve_overlaps(args.self, args.upper_subdivision,
                                   args.lower_subdivision)
          /\ ~lower_curve_overlaps(args.self, args.upper_subdivision,
                                   args.lower_subdivision)
          /\ OneBQuadNoVertex(args)

\* a call of emit_b_quads on a Flat edge and a Concave one
C40_Witness ==
  \E c \in HandlerCalls \cup SortCalls :
    /\ Emits(c[1], c[2], c[3])
    /\ ConcavePastFlat(EmissionArguments(c[1], c[2], c[3]))

====
